---- MODULE Spec2Model ----
(***************************************************************************)
(* A model of the layout-preserving PDF translation pipeline:              *)
(*   - TextTranslator (src/translator.py): per-page sorting, batching,     *)
(*     batch reply parsing, the translation cache and the batch ->         *)
(*     individual -> pass-through fallback;                                *)
(*   - PDFReconstructor (src/reconstructor.py): _calculate_font_size,      *)
(*     _wrap_text, the page composition of create_side_by_side_pdf and     *)
(*     create_translation_only_pdf, process_large_pdf_in_batches and       *)
(*     merge_batch_pdfs;                                                   *)
(*   - PDFTranslatorApp.translate_pdf (src/main.py).                       *)
(*                                                                         *)
(* Python strings are sequences of one-character strings, so that split,   *)
(* strip, startswith, slicing and f-string concatenation are computed      *)
(* rather than assumed.  Python floats are modelled as exact rationals     *)
(* <<numerator, denominator>> with a positive denominator.                 *)
(*                                                                         *)
(* Eleven specifications share the variables:                                 *)
(*   Spec      - one TextTranslator instance running translate_text_blocks *)
(*   SpecLive  - Spec with the fairness that lets the call make progress   *)
(*   SpecParse - _parse_batch_response applied to bounded reply texts      *)
(*   SpecFit   - _calculate_font_size applied to bounded inputs            *)
(*   SpecWrap  - _wrap_text applied to bounded inputs                      *)
(*   SpecDoc   - one PDFReconstructor composing, batching and merging      *)
(*   SpecApp   - one call of translate_pdf                                 *)
(*   SpecDraw  - _add_translated_text drawing one fragment                 *)
(*   SpecLang  - the source language step of translate_pdf and /translate  *)
(*   SpecText  - translate_text called repeatedly on one TextTranslator    *)
(*   SpecServer - the task table of src/server.py under concurrent access  *)
(***************************************************************************)
EXTENDS Integers, Sequences, FiniteSets, TLC

VARIABLES
    \* ---- SpecParse: TextTranslator._parse_batch_response(response, expected_count)
    response,           \* the reply text handed to the parser
    expected_count,     \* the expected number of translations
    parse_pc,           \* "off" | "call" | "returned"
    parse_result,       \* the returned list
    \* ---- SpecFit: PDFReconstructor._calculate_font_size(text, bbox, original_size)
    fit_pc,             \* "off" | "call" | "returned"
    fit_text,           \* the text to render
    fit_bbox,           \* the fragment's rectangle [x0, y0, x1, y1]
    original_size,      \* the fragment's nominal size
    fit_config,         \* [min_font_size, max_font_reduction] (rationals)
    new_size,           \* the returned render size (rational)
    \* ---- Spec: one TextTranslator instance
    config,             \* [batch_size]
    source_lang,
    target_lang,
    text_blocks,        \* the argument list of translate_text_blocks (block ids)
    heap,               \* block id -> TextBlock record (objects are mutated in place)
    heap0,              \* history: the heap as it was at the call
    translation_cache,  \* self.translation_cache: key -> translated text
    pc,                 \* position of translate_text_blocks; "batch_call" and
                        \* "single_call" while a request is awaited
    pages,              \* the dict built by translate_text_blocks, in insertion order
    page_idx,           \* index of the page being processed (1-based)
    sorted_blocks,      \* _translate_page_blocks: the sorted page
    i,                  \* _translate_page_blocks: the batch start (0-based)
    page_translated,    \* _translate_page_blocks: translated_blocks
    translated_blocks,  \* translate_text_blocks: translated_blocks
    batch,              \* the batch under individual fallback
    k,                  \* _translate_batch_individually: position in the batch (1-based)
    trace,              \* history: the calls made so far, in order
    outstanding,        \* the chat-completion requests sent and not yet answered
    \* ---- SpecWrap: PDFReconstructor._wrap_text(text, font, font_size, max_width)
    wrap_pc,            \* "off" | "call" | "returned"
    wrap_text,          \* the text to wrap
    wrap_font_size,     \* the render size (rational)
    max_width,          \* the width available to a line (rational)
    wrap_lines,         \* the returned list of lines
    \* ---- SpecDoc: one PDFReconstructor
    doc_pc,             \* "off" | "start" | "pages" | "blocks" | "batches" | "merge" | "done"
    doc_pages,          \* the pages argument: the list of PageInfo
    doc_text_blocks,    \* the text_blocks argument: the list of TextBlock
    pages_per_batch,
    caller,             \* who called the running create call: "whole" | "batch" | "translation_only"
    page_range,         \* the page_range argument: None or <<start_page, end_page>>
    pages_to_process,
    page_pos,           \* position of "for page_info in pages_to_process" (1-based)
    page_text_blocks,   \* the current page's fragments, filtered and sorted
    block_pos,          \* position of "for text_block in page_text_blocks" (1-based)
    doc,                \* self.doc: the pages composed in memory
    batch_idx,
    output_files,       \* process_large_pdf_in_batches: the list it returns
    files,              \* the file system: the documents saved so far
    final_doc,          \* merge_batch_pdfs: the document being merged
    merge_idx,          \* merge_batch_pdfs: position in batch_files (1-based)
    merge_log,          \* history: the batch files handled by the merge, in order
    doc_log,            \* history: the create calls that ended, in order
    \* ---- SpecApp: PDFTranslatorApp.translate_pdf
    app_pc,             \* "off" | "call" | "extracted" | "translated" | "merge" | "finished" | "returned"
    input_path,         \* the name of the input file
    input_exists,       \* input_path.exists()
    src_lang,
    has_text_blocks,    \* the extraction yields a non-empty text_blocks
    total_pages,
    per_batch,          \* the pages_per_batch argument
    merge_batches,
    batch_files,        \* how many batch files process_large_pdf_in_batches returned
    app_calls,          \* history: the collaborator calls made, in order
    written,            \* the output files created
    app_result,         \* "none" until translate_pdf returns, then its result
    \* ---- SpecDraw: PDFReconstructor._add_translated_text(page, text_block)
    add_pc,             \* "off" | "call" | "try" | "lines" | "done"
    add_block,          \* the TextBlock: [text, translated_text, bbox, size]
    unicode_font,       \* whether _load_unicode_font found a font file
    add_config,         \* [adjust_font_size, min_font_size, max_font_reduction]
    render_size,        \* local font_size after the adjustment (rational)
    text_lines,         \* local lines: what _wrap_text returned
    line_pos,           \* the number of lines the for loop has passed
    y_offset,           \* local y_offset (rational)
    drawn,              \* what was put on the page: [pos, text, fontsize, fontname]
    add_errors,         \* the number of "Failed to add text" log records
    \* ---- SpecLang: the source language step of the two entry points
    lang_pc,            \* "off" | "call" | "language" | "translate" | "done"
    entry,              \* "main" (PDFTranslatorApp.translate_pdf) | "web_app" (/translate)
    given_lang,         \* the source_lang argument / form field; <<>> when not given
    config_lang,        \* config.source_language of the PDFTranslatorApp
    block_texts,        \* the texts of the extracted text_blocks, in order
    lang_src,           \* local src_lang (main) / source_lang (web_app)
    lang_calls,         \* history: the detection and translation calls, in order
    \* ---- SpecText: translate_text called repeatedly on one TextTranslator
    tt_cache,           \* self.translation_cache
    tt_calls,           \* history: [text, source_lang, target_lang, result, hit, stored]
    \* ---- SpecServer: the task table of src/server.py, its worker threads and
    \*      a request handler
    tasks,              \* the module-level dict: task id -> dict of fields
    worker_pc,          \* per task id: the position of its process_pdf_task thread
    req_pc,             \* "idle" | "checked": the /download or /view handler
    req_kind,           \* "download" | "view"
    req_task,           \* the task id of the request being handled
    responses           \* history: [kind, task, outcome] of the answered requests

parse_vars == <<response, expected_count, parse_pc, parse_result>>
fit_vars == <<fit_pc, fit_text, fit_bbox, original_size, fit_config, new_size>>
tr_vars == <<config, source_lang, target_lang, text_blocks, heap, heap0,
             translation_cache, pc, pages, page_idx, sorted_blocks, i,
             page_translated, translated_blocks, batch, k, trace, outstanding>>
wrap_vars == <<wrap_pc, wrap_text, wrap_font_size, max_width, wrap_lines>>
doc_vars == <<doc_pc, doc_pages, doc_text_blocks, pages_per_batch, caller, page_range,
              pages_to_process, page_pos, page_text_blocks, block_pos, doc, batch_idx,
              output_files, files, final_doc, merge_idx, merge_log, doc_log>>
app_vars == <<app_pc, input_path, input_exists, src_lang, has_text_blocks, total_pages,
              per_batch, merge_batches, batch_files, app_calls, written, app_result>>
add_vars == <<add_pc, add_block, unicode_font, add_config, render_size, text_lines,
              line_pos, y_offset, drawn, add_errors>>
lang_vars == <<lang_pc, entry, given_lang, config_lang, block_texts, lang_src, lang_calls>>
tt_vars == <<tt_cache, tt_calls>>
srv_vars == <<tasks, worker_pc, req_pc, req_kind, req_task, responses>>
more_vars == <<add_vars, lang_vars, tt_vars, srv_vars>>
base_vars == <<parse_vars, fit_vars, tr_vars, wrap_vars, doc_vars, app_vars>>
ext_vars == <<wrap_vars, doc_vars, app_vars, more_vars>>
vars == <<parse_vars, fit_vars, tr_vars, ext_vars>>

(***************************************************************************)
(* Bounds of the model.                                                    *)
(***************************************************************************)
MaxRespLen == 5         \* longest reply text given to the parser alone
MaxExpected == 3        \* largest expected_count given to the parser alone
MaxBlocks == 2          \* most fragments in one translate_text_blocks call
MaxBatchSize == 2       \* largest config.batch_size
MaxWrapLen == 5         \* longest text given to _wrap_text alone
MaxPages == 3           \* most pages of a composed document
MaxPagesPerBatch == 2   \* largest pages_per_batch
MaxDocBlocks == 1       \* most fragments of a composed document
MaxAppPages == 3        \* most pages of a document given to translate_pdf
MaxTextCalls == 2       \* most translate_text calls on one instance in SpecText
MaxTasks == 2           \* most uploads in SpecServer
MaxRequests == 2        \* most /download and /view requests in SpecServer
MaxOrdinal == 10        \* largest item number in a reply (default batch_size is 10)

(***************************************************************************)
(* Python string operations.                                               *)
(***************************************************************************)
\* str.isspace for one character (the whitespace the model's texts use)
IsSpace(c) == c \in {" ", "\n", "\t"}

RECURSIVE LStrip(_)
LStrip(s) ==
    IF s = <<>> THEN <<>>
    ELSE IF IsSpace(Head(s)) THEN LStrip(Tail(s)) ELSE s

RECURSIVE RStrip(_)
RStrip(s) ==
    IF s = <<>> THEN <<>>
    ELSE IF IsSpace(s[Len(s)]) THEN RStrip(SubSeq(s, 1, Len(s) - 1)) ELSE s

\* str.strip()
Strip(s) == RStrip(LStrip(s))

\* str.startswith(p)
StartsWith(s, p) == Len(s) >= Len(p) /\ SubSeq(s, 1, Len(p)) = p

\* s[n:]
DropFirst(s, n) == SubSeq(s, n + 1, Len(s))

\* the batch delimiter '---'
Separator == <<"-", "-", "-">>

\* str.find(sep): the least 1-based index at which sep occurs, 0 if none
Find(s, sep) ==
    LET hits == {j \in 1..(Len(s) - Len(sep) + 1) : SubSeq(s, j, j + Len(sep) - 1) = sep}
    IN IF hits = {} THEN 0 ELSE CHOOSE j \in hits : \A h \in hits : j <= h

\* str.split(sep): left to right, non-overlapping; always at least one part
RECURSIVE Split(_, _)
Split(s, sep) ==
    LET j == Find(s, sep)
    IN IF j = 0 THEN <<s>>
       ELSE <<SubSeq(s, 1, j - 1)>> \o Split(DropFirst(s, j + Len(sep) - 1), sep)

\* the prefixes '1.' .. '9.' tested by _parse_batch_response
NumberPrefixes == {<<d, ".">> : d \in {"1", "2", "3", "4", "5", "6", "7", "8", "9"}}

(***************************************************************************)
(* TextTranslator._parse_batch_response                                    *)
(***************************************************************************)
\* one iteration of "for part in parts": the list after handling `part`
CleanPart(translations, part) ==
    LET cleaned == Strip(part)
    IN IF cleaned = <<>> THEN translations
       ELSE IF \E p \in NumberPrefixes : StartsWith(cleaned, p)
            THEN Append(translations, Strip(DropFirst(cleaned, 2)))
            ELSE Append(translations, cleaned)

RECURSIVE CleanParts(_, _)
CleanParts(translations, parts) ==
    IF parts = <<>> THEN translations
    ELSE CleanParts(CleanPart(translations, Head(parts)), Tail(parts))

\* while len(translations) < expected_count: translations.append("")
RECURSIVE PadTo(_, _)
PadTo(translations, n) ==
    IF Len(translations) < n THEN PadTo(Append(translations, <<>>), n) ELSE translations

\* translations[:n] for n >= 0
TakeFirst(s, n) == SubSeq(s, 1, IF n < Len(s) THEN n ELSE Len(s))

\* A parser that forgets to pad a short reply.
ParseNoPadding(resp, n) == TakeFirst(CleanParts(<<>>, Split(resp, Separator)), n)

_parse_batch_response(resp, n) ==
    TakeFirst(PadTo(CleanParts(<<>>, Split(resp, Separator)), n), n)

(***************************************************************************)
(* SpecParse: the parser applied to every reply text over ParseAlphabet of *)
(* length at most MaxRespLen and every expected count up to MaxExpected.   *)
(***************************************************************************)
ParseAlphabet == {"a", " ", "-", "1", "."}

RECURSIVE StringsUpTo(_, _)
StringsUpTo(alphabet, n) ==
    IF n = 0 THEN {<<>>}
    ELSE LET shorter == StringsUpTo(alphabet, n - 1)
         IN shorter \cup {Append(s, c) : s \in shorter, c \in alphabet}

\* str(n) for n >= 0
DigitChars == <<"0", "1", "2", "3", "4", "5", "6", "7", "8", "9">>

RECURSIVE Digits(_)
Digits(n) ==
    IF n < 10 THEN <<DigitChars[n + 1]>>
    ELSE Digits(n \div 10) \o <<DigitChars[(n % 10) + 1]>>

\* _create_batch_translation_prompt numbers the texts f"{i}. {text}" from 1;
\* replies that repeat the numbering of item n, with and without the space
NumberedReplies ==
    {Digits(n) \o <<".">> \o gap \o <<"a">> : n \in 1..MaxOrdinal, gap \in {<<>>, <<" ">>}}

ParseOff ==
    /\ response = <<>>
    /\ expected_count = 0
    /\ parse_pc = "off"
    /\ parse_result = <<>>

ParseInit ==
    /\ response \in StringsUpTo(ParseAlphabet, MaxRespLen) \cup NumberedReplies
    /\ expected_count \in 0..MaxExpected
    /\ parse_pc = "call"
    /\ parse_result = <<>>

ParseCall ==
    /\ parse_pc = "call"
    /\ parse_result' = _parse_batch_response(response, expected_count)
    /\ parse_pc' = "returned"
    /\ UNCHANGED <<response, expected_count>>

(***************************************************************************)
(* Exact rational arithmetic standing for Python floats.                   *)
(***************************************************************************)
RECURSIVE GCD(_, _)
GCD(a, b) == IF b = 0 THEN a ELSE GCD(b, a % b)

Abs(x) == IF x < 0 THEN -x ELSE x

\* the rational n/d in lowest terms, d > 0
R(n, d) ==
    LET g == GCD(Abs(n), Abs(d))
        sgn == IF d < 0 THEN -1 ELSE 1
    IN <<sgn * (n \div g), sgn * (d \div g)>>

RMul(a, b) == R(a[1] * b[1], a[2] * b[2])
RDiv(a, b) == R(a[1] * b[2], a[2] * b[1])
RLe(a, b) == a[1] * b[2] <= b[1] * a[2]
RLt(a, b) == a[1] * b[2] < b[1] * a[2]
RMin(a, b) == IF RLe(a, b) THEN a ELSE b
RMax(a, b) == IF RLe(b, a) THEN a ELSE b

(***************************************************************************)
(* BoundingBox (src/utils.py) and TranslatorConfig (src/config.py)         *)
(***************************************************************************)
Width(bbox) == bbox.x1 - bbox.x0
Height(bbox) == bbox.y1 - bbox.y0

\* TranslatorConfig(): min_font_size = 6.0, max_font_reduction = 0.8
DefaultFontConfig == [min_font_size |-> R(6, 1), max_font_reduction |-> R(4, 5)]

(***************************************************************************)
(* PDFReconstructor._calculate_font_size                                   *)
(***************************************************************************)
avg_char_width == R(11, 20)                            \* 0.55
LineHeightFactor == R(6, 5)                            \* 1.2
WidthMargin == R(19, 20)                               \* 0.95
HeightMargin == R(9, 10)                               \* 0.90

estimated_width(text, size) == RMul(RMul(R(Len(text), 1), size), avg_char_width)
estimated_height(size) == RMul(size, LineHeightFactor)
available_width(bbox) == RMul(R(Width(bbox), 1), WidthMargin)
available_height(bbox) == RMul(R(Height(bbox), 1), HeightMargin)

\* the early return: the text fits at its original size
FitsAtOriginal(text, bbox, size) ==
    /\ RLe(estimated_width(text, size), available_width(bbox))
    /\ RLe(estimated_height(size), available_height(bbox))

\* scale = min(width_scale, height_scale, 1.0)
FitScale(text, bbox, size) ==
    LET ew == estimated_width(text, size)
        eh == estimated_height(size)
        width_scale == IF RLt(R(0, 1), ew) THEN RDiv(available_width(bbox), ew) ELSE R(1, 1)
        height_scale == IF RLt(R(0, 1), eh) THEN RDiv(available_height(bbox), eh) ELSE R(1, 1)
    IN RMin(RMin(width_scale, height_scale), R(1, 1))

\* A fit that forgets the absolute floor min_font_size.
FontSizeNoMinFloor(text, bbox, size, cfg) ==
    IF Strip(text) = <<>> THEN size
    ELSE IF FitsAtOriginal(text, bbox, size) THEN size
    ELSE RMul(size, RMax(FitScale(text, bbox, size), cfg.max_font_reduction))

\* A fit that forgets the relative floor max_font_reduction.
FontSizeNoReductionFloor(text, bbox, size, cfg) ==
    IF Strip(text) = <<>> THEN size
    ELSE IF FitsAtOriginal(text, bbox, size) THEN size
    ELSE RMax(RMul(size, FitScale(text, bbox, size)), cfg.min_font_size)

\* A fit that scales every text to its rectangle, enlarging one that has room.
FontSizeScaledToBox(text, bbox, size, cfg) ==
    IF Strip(text) = <<>> THEN size
    ELSE LET scale == RMin(RDiv(available_width(bbox), estimated_width(text, size)),
                           RDiv(available_height(bbox), estimated_height(size)))
         IN RMax(RMul(size, RMax(scale, cfg.max_font_reduction)), cfg.min_font_size)

\* the body of _calculate_font_size after the two early returns
ClampedSize(text, bbox, size, cfg) ==
    LET scale == RMax(FitScale(text, bbox, size), cfg.max_font_reduction)
    IN RMax(RMul(size, scale), cfg.min_font_size)

_calculate_font_size(text, bbox, size, cfg) ==
    IF Strip(text) = <<>> THEN size
    ELSE IF FitsAtOriginal(text, bbox, size) THEN size
    ELSE ClampedSize(text, bbox, size, cfg)

(***************************************************************************)
(* SpecFit: the fit computation applied to bounded inputs.                 *)
(***************************************************************************)
Rep(c, n) == [j \in 1..n |-> c]

FitLens == {1, 3, 10, 200}
FitTexts == {Rep("a", n) : n \in FitLens} \cup {<<>>, <<" ", " ">>, <<" ", "a", " ">>}
FitWidths == {0, 10, 40, 100, 600}
FitHeights == {0, 5, 12, 20}
FitOrigins == {0, 72}
FitSizes == {R(4, 1), R(6, 1), R(15, 2), R(12, 1)}
FitConfigs == {DefaultFontConfig,
               [min_font_size |-> R(8, 1), max_font_reduction |-> R(1, 2)]}

FitOff ==
    /\ fit_pc = "off"
    /\ fit_text = <<>>
    /\ fit_bbox = [x0 |-> 0, y0 |-> 0, x1 |-> 0, y1 |-> 0]
    /\ original_size = R(0, 1)
    /\ fit_config = DefaultFontConfig
    /\ new_size = R(0, 1)

FitInit ==
    /\ fit_pc = "call"
    /\ fit_text \in FitTexts
    /\ fit_bbox \in {[x0 |-> o, y0 |-> o, x1 |-> o + w, y1 |-> o + h] :
                        o \in FitOrigins, w \in FitWidths, h \in FitHeights}
    /\ original_size \in FitSizes
    /\ fit_config \in FitConfigs
    /\ new_size = R(0, 1)

FitCall ==
    /\ fit_pc = "call"
    /\ new_size' = _calculate_font_size(fit_text, fit_bbox, original_size, fit_config)
    /\ fit_pc' = "returned"
    /\ UNCHANGED <<fit_text, fit_bbox, original_size, fit_config>>

(***************************************************************************)
(* TextTranslator: data                                                    *)
(***************************************************************************)
\* The texts, rectangles and pages of the input fragments.  TextBlock's font,
\* size and color are never read or written by the translator and are left out.
Texts == {<<"a">>, <<"b">>, <<" ">>}
Boxes == {[x0 |-> 0, y0 |-> 100, x1 |-> 40, y1 |-> 112],
          [x0 |-> 10, y0 |-> 50, x1 |-> 50, y1 |-> 62],
          [x0 |-> 0, y0 |-> 50, x1 |-> 8, y1 |-> 62]}
PageNumbers == {0, 1}
SourceLangs == {<<"e", "n">>}
TargetLangs == {<<"r", "u">>}

\* a freshly extracted TextBlock: translated_text defaults to ""
TextBlock(text, bbox, page) ==
    [text |-> text, bbox |-> bbox, page |-> page, translated_text |-> <<>>]

\* message.content of a successful batch call
BatchReplies == {
    <<"1", ".", "X", "\n", "-", "-", "-", "\n", "2", ".", "Y">>,
    <<"-", "-", "-", "X">>,
    <<"Y">>}

\* message.content of a successful single-text call
SingleReplies == {<<" ", "Z">>}

\* f"{text}:{source_lang}:{target_lang}"
CacheKey(text, src, tgt) == text \o <<":">> \o src \o <<":">> \o tgt

\* self.translation_cache[key] = value
CachePut(cache, key, value) ==
    [c \in (DOMAIN cache) \cup {key} |-> IF c = key THEN value ELSE cache[c]]

EmptyCache == [c \in {} |-> <<>>]

(***************************************************************************)
(* translate_text_blocks: grouping by page (dict insertion order)          *)
(***************************************************************************)
PageIndex(ps, page) ==
    LET hits == {j \in 1..Len(ps) : ps[j].page = page}
    IN IF hits = {} THEN 0 ELSE CHOOSE j \in hits : TRUE

\* A grouping that overwrites a page's list instead of appending to it.
AddToPageOverwrite(ps, h, id) ==
    LET j == PageIndex(ps, h[id].page)
    IN IF j = 0 THEN Append(ps, [page |-> h[id].page, blocks |-> <<id>>])
       ELSE [ps EXCEPT ![j].blocks = <<id>>]

\* pages[block.page].append(block), creating the list on first sight
AddToPage(ps, h, id) ==
    LET j == PageIndex(ps, h[id].page)
    IN IF j = 0 THEN Append(ps, [page |-> h[id].page, blocks |-> <<id>>])
       ELSE [ps EXCEPT ![j].blocks = Append(@, id)]

RECURSIVE GroupByPage(_, _, _)
GroupByPage(ps, h, ids) ==
    IF ids = <<>> THEN ps
    ELSE GroupByPage(AddToPage(ps, h, Head(ids)), h, Tail(ids))

(***************************************************************************)
(* _translate_page_blocks: sorted(page_blocks, key=(y0, x0)), stable       *)
(***************************************************************************)
\* tuple comparison (y0, x0) < (y0', x0')
KeyLess(a, b) == a.y0 < b.y0 \/ (a.y0 = b.y0 /\ a.x0 < b.x0)

\* insert id behind every element whose key is not greater (stability)
InsertByKey(sorted, h, id) ==
    LET later == {j \in 1..Len(sorted) : KeyLess(h[id].bbox, h[sorted[j]].bbox)}
        at == IF later = {} THEN Len(sorted) + 1
              ELSE CHOOSE j \in later : \A l \in later : j <= l
    IN SubSeq(sorted, 1, at - 1) \o <<id>> \o SubSeq(sorted, at, Len(sorted))

RECURSIVE SortInto(_, _, _)
SortInto(sorted, h, ids) ==
    IF ids = <<>> THEN sorted
    ELSE SortInto(InsertByKey(sorted, h, Head(ids)), h, Tail(ids))

\* A page that is batched in the order it was supplied in.
Unsorted(h, ids) == ids

SortedByPosition(h, ids) == SortInto(<<>>, h, ids)

\* A slice that runs one fragment into the next batch.
BatchAtOverlapping(blocks, start, size) ==
    SubSeq(blocks, start + 1,
           IF start + size + 1 < Len(blocks) THEN start + size + 1 ELSE Len(blocks))

\* sorted_blocks[i:i + batch_size]
BatchAt(blocks, start, size) ==
    SubSeq(blocks, start + 1, IF start + size < Len(blocks) THEN start + size ELSE Len(blocks))

(***************************************************************************)
(* _build_context                                                          *)
(***************************************************************************)
Max(a, b) == IF a > b THEN a ELSE b
Min(a, b) == IF a < b THEN a ELSE b

\* ' '.join(parts)
RECURSIVE JoinWithSpace(_)
JoinWithSpace(parts) ==
    IF parts = <<>> THEN <<>>
    ELSE IF Len(parts) = 1 THEN parts[1]
    ELSE parts[1] \o <<" ">> \o JoinWithSpace(Tail(parts))

\* the stripped non-blank texts of all_blocks[from:to] (0-based, to exclusive)
RECURSIVE ContextParts(_, _, _, _)
ContextParts(h, all_blocks, from, to) ==
    IF from >= to THEN <<>>
    ELSE LET text == h[all_blocks[from + 1]].text
         IN (IF Strip(text) # <<>> THEN <<Strip(text)>> ELSE <<>>)
            \o ContextParts(h, all_blocks, from + 1, to)

_build_context(h, all_blocks, current_index, batch_size) ==
    LET start_context == Max(0, current_index - 3)
        end_context == Min(Len(all_blocks), current_index + batch_size + 3)
    IN JoinWithSpace(ContextParts(h, all_blocks, start_context, current_index)
                     \o ContextParts(h, all_blocks, current_index + batch_size, end_context))

(***************************************************************************)
(* _translate_batch_with_context                                           *)
(***************************************************************************)
\* A payload that takes the text of every fragment of the batch.
BatchTextsUnfiltered(h, b) == [j \in 1..Len(b) |-> h[b[j]].text]

\* A batch that is sent to the translator whatever it holds.
NeverNothingToTranslate(texts) == FALSE

\* if not texts: return batch
NothingToTranslate(texts) == texts = <<>>

\* [block.text for block in batch if block.text.strip()]
RECURSIVE BatchTexts(_, _)
BatchTexts(h, b) ==
    IF b = <<>> THEN <<>>
    ELSE (IF Strip(h[Head(b)].text) # <<>> THEN <<h[Head(b)].text>> ELSE <<>>)
         \o BatchTexts(h, Tail(b))

\* the loop "for block in batch" that applies the translations: the heap and
\* the cache after it, text_index being the loop's counter (0-based)
RECURSIVE ApplyTranslations(_, _, _, _, _, _, _)
ApplyTranslations(h, cache, b, translations, text_index, src, tgt) ==
    IF b = <<>> THEN [heap |-> h, cache |-> cache]
    ELSE LET id == Head(b)
             text == h[id].text
         IN IF Strip(text) # <<>>
            THEN IF text_index < Len(translations)
                 THEN ApplyTranslations(
                          [h EXCEPT ![id].translated_text = translations[text_index + 1]],
                          CachePut(cache, CacheKey(text, src, tgt), translations[text_index + 1]),
                          Tail(b), translations, text_index + 1, src, tgt)
                 ELSE ApplyTranslations(
                          [h EXCEPT ![id].translated_text = text],
                          cache, Tail(b), translations, text_index, src, tgt)
            ELSE ApplyTranslations(
                     [h EXCEPT ![id].translated_text = text],
                     cache, Tail(b), translations, text_index, src, tgt)

(***************************************************************************)
(* translate_text                                                          *)
(***************************************************************************)
\* A fallback that blanks the fragment when its own call fails.
BlankOnFailure(text) == <<>>

\* except Exception: return text
OriginalOnFailure(text) == text

(***************************************************************************)
(* History of calls.  kind "batch": one chat-completion call carrying the  *)
(* batch's non-blank texts and the context.  kind "single": one            *)
(* translate_text invocation of the individual fallback; external says     *)
(* whether it reached the chat-completion call (it does not for a blank    *)
(* text or a cache hit).  cached is the cache's key set when it started.   *)
(***************************************************************************)
Event(kind, blocks, texts, context, external, ok, translations, cached) ==
    [kind |-> kind, blocks |-> blocks, texts |-> texts, context |-> context,
     external |-> external, ok |-> ok, translations |-> translations,
     cached |-> cached]

(***************************************************************************)
(* Spec: translate_text_blocks on one TextTranslator instance              *)
(***************************************************************************)
TranslatorOff ==
    /\ config = [batch_size |-> 1]
    /\ source_lang = <<>>
    /\ target_lang = <<>>
    /\ text_blocks = <<>>
    /\ heap = <<>>
    /\ heap0 = <<>>
    /\ translation_cache = EmptyCache
    /\ pc = "off"
    /\ pages = <<>>
    /\ page_idx = 0
    /\ sorted_blocks = <<>>
    /\ i = 0
    /\ page_translated = <<>>
    /\ translated_blocks = <<>>
    /\ batch = <<>>
    /\ k = 0
    /\ trace = <<>>
    /\ outstanding = 0

\* TextTranslator(config) constructed, translate_text_blocks about to be called
\* with a list of up to MaxBlocks distinct TextBlock objects (ids 1..n)
TranslatorInit ==
    /\ config \in {[batch_size |-> b] : b \in 1..MaxBatchSize}
    /\ source_lang \in SourceLangs
    /\ target_lang \in TargetLangs
    /\ \E n \in 0..MaxBlocks :
          /\ text_blocks = [j \in 1..n |-> j]
          /\ heap \in [1..n -> {TextBlock(t, b, p) : t \in Texts, b \in Boxes, p \in PageNumbers}]
    /\ heap0 = heap
    /\ translation_cache = EmptyCache
    /\ pc = "call"
    /\ pages = <<>>
    /\ page_idx = 0
    /\ sorted_blocks = <<>>
    /\ i = 0
    /\ page_translated = <<>>
    /\ translated_blocks = <<>>
    /\ batch = <<>>
    /\ k = 0
    /\ trace = <<>>
    /\ outstanding = 0

\* translate_text_blocks, lines 93-101: group the blocks by page
GroupPages ==
    /\ pc = "call"
    /\ pages' = GroupByPage(<<>>, heap, text_blocks)
    /\ translated_blocks' = <<>>
    /\ page_idx' = 1
    /\ pc' = "pages"
    /\ UNCHANGED <<config, source_lang, target_lang, text_blocks, heap, heap0,
                   translation_cache, sorted_blocks, i, page_translated, batch, k, trace>>
    /\ UNCHANGED outstanding

\* for page_num, page_blocks in pages.items(): enter _translate_page_blocks
EnterPage ==
    /\ pc = "pages"
    /\ page_idx <= Len(pages)
    /\ sorted_blocks' = SortedByPosition(heap, pages[page_idx].blocks)
    /\ page_translated' = <<>>
    /\ i' = 0
    /\ pc' = "batches"
    /\ UNCHANGED <<config, source_lang, target_lang, text_blocks, heap, heap0,
                   translation_cache, pages, page_idx, translated_blocks, batch, k, trace>>
    /\ UNCHANGED outstanding

\* the loop over the pages is exhausted: return translated_blocks
ReturnBlocks ==
    /\ pc = "pages"
    /\ page_idx > Len(pages)
    /\ pc' = "done"
    /\ UNCHANGED <<config, source_lang, target_lang, text_blocks, heap, heap0,
                   translation_cache, pages, page_idx, sorted_blocks, i,
                   page_translated, translated_blocks, batch, k, trace>>
    /\ UNCHANGED outstanding

CurrentBatch == BatchAt(sorted_blocks, i, config.batch_size)

\* _translate_page_blocks after a batch returned: extend, next batch start
BatchReturned(b) ==
    /\ page_translated' = page_translated \o b
    /\ i' = i + config.batch_size
    /\ pc' = "batches"

\* _translate_batch_with_context, lines 166-168: no non-blank text, return batch
BatchAllBlank ==
    /\ pc = "batches"
    /\ i < Len(sorted_blocks)
    /\ NothingToTranslate(BatchTexts(heap, CurrentBatch))
    /\ BatchReturned(CurrentBatch)
    /\ UNCHANGED <<config, source_lang, target_lang, text_blocks, heap, heap0,
                   translation_cache, pages, page_idx, sorted_blocks,
                   translated_blocks, batch, k, trace>>
    /\ UNCHANGED outstanding

\* _translate_batch_with_context, lines 170-186: the prompt is built and the
\* chat-completion request is sent; the caller blocks until it is answered
SendBatch ==
    /\ pc = "batches"
    /\ i < Len(sorted_blocks)
    /\ ~NothingToTranslate(BatchTexts(heap, CurrentBatch))
    /\ outstanding' = outstanding + 1
    /\ pc' = "batch_call"
    /\ UNCHANGED <<config, source_lang, target_lang, text_blocks, heap, heap0,
                   translation_cache, pages, page_idx, sorted_blocks, i,
                   page_translated, translated_blocks, batch, k, trace>>

\* _translate_batch_with_context, lines 170-204: the call succeeds with `reply`
BatchCallOk ==
    /\ pc = "batch_call"
    /\ i < Len(sorted_blocks)
    /\ ~NothingToTranslate(BatchTexts(heap, CurrentBatch))
    /\ \E reply \in BatchReplies :
          LET texts == BatchTexts(heap, CurrentBatch)
              context == _build_context(heap, sorted_blocks, i, config.batch_size)
              translations == _parse_batch_response(Strip(reply), Len(texts))
              applied == ApplyTranslations(heap, translation_cache, CurrentBatch,
                                           translations, 0, source_lang, target_lang)
          IN /\ heap' = applied.heap
             /\ translation_cache' = applied.cache
             /\ trace' = Append(trace, Event("batch", CurrentBatch, texts, context, TRUE,
                                             TRUE, translations, DOMAIN translation_cache))
    /\ BatchReturned(CurrentBatch)
    /\ UNCHANGED <<config, source_lang, target_lang, text_blocks, heap0, pages,
                   page_idx, sorted_blocks, translated_blocks, batch, k>>
    /\ outstanding' = outstanding - 1

\* A failed batch call that is sent again instead of falling back.
BatchCallFailRetried ==
    /\ pc = "batch_call"
    /\ trace' = Append(trace, Event("batch", CurrentBatch, BatchTexts(heap, CurrentBatch),
                                    _build_context(heap, sorted_blocks, i, config.batch_size),
                                    TRUE, FALSE, <<>>, DOMAIN translation_cache))
    /\ pc' = "batches"
    /\ outstanding' = outstanding - 1
    /\ UNCHANGED <<config, source_lang, target_lang, text_blocks, heap, heap0,
                   translation_cache, pages, page_idx, sorted_blocks, i,
                   page_translated, translated_blocks, batch, k>>

\* _translate_batch_with_context, lines 206-209: the call raises, or its reply has
\* no content to strip; control passes to _translate_batch_individually
BatchCallFail ==
    /\ pc = "batch_call"
    /\ i < Len(sorted_blocks)
    /\ ~NothingToTranslate(BatchTexts(heap, CurrentBatch))
    /\ trace' = Append(trace, Event("batch", CurrentBatch, BatchTexts(heap, CurrentBatch),
                                    _build_context(heap, sorted_blocks, i, config.batch_size),
                                    TRUE, FALSE, <<>>, DOMAIN translation_cache))
    /\ batch' = CurrentBatch
    /\ k' = 1
    /\ pc' = "individual"
    /\ UNCHANGED <<config, source_lang, target_lang, text_blocks, heap, heap0,
                   translation_cache, pages, page_idx, sorted_blocks, i,
                   page_translated, translated_blocks>>
    /\ outstanding' = outstanding - 1

\* _translate_batch_individually: block.translated_text = <result of translate_text>,
\* then the next block, or return batch after the last one
IndividualDone(result, external, ok) ==
    /\ heap' = [heap EXCEPT ![batch[k]].translated_text = result]
    /\ trace' = Append(trace, Event("single", <<batch[k]>>, <<heap[batch[k]].text>>, <<>>,
                                    external, ok, <<result>>, DOMAIN translation_cache))
    /\ IF k < Len(batch)
       THEN /\ k' = k + 1
            /\ pc' = "individual"
            /\ UNCHANGED <<i, page_translated, batch>>
       ELSE /\ BatchReturned(batch)
            /\ k' = 0
            /\ batch' = <<>>
    /\ UNCHANGED <<config, source_lang, target_lang, text_blocks, heap0, pages,
                   page_idx, sorted_blocks, translated_blocks>>

IndividualText == heap[batch[k]].text
IndividualKey == CacheKey(IndividualText, source_lang, target_lang)

\* translate_text, lines 43-44: a blank text is returned as it is
TranslateTextBlank ==
    /\ pc = "individual"
    /\ Strip(IndividualText) = <<>>
    /\ IndividualDone(IndividualText, FALSE, TRUE)
    /\ UNCHANGED translation_cache
    /\ UNCHANGED outstanding

\* translate_text, lines 46-49: cache hit
TranslateTextCached ==
    /\ pc = "individual"
    /\ Strip(IndividualText) # <<>>
    /\ IndividualKey \in DOMAIN translation_cache
    /\ IndividualDone(translation_cache[IndividualKey], FALSE, TRUE)
    /\ UNCHANGED translation_cache
    /\ UNCHANGED outstanding

\* translate_text, lines 51-67: the chat-completion request for one text is
\* sent; the caller blocks until it is answered
SendSingle ==
    /\ pc = "individual"
    /\ Strip(IndividualText) # <<>>
    /\ IndividualKey \notin DOMAIN translation_cache
    /\ outstanding' = outstanding + 1
    /\ pc' = "single_call"
    /\ UNCHANGED <<config, source_lang, target_lang, text_blocks, heap, heap0,
                   translation_cache, pages, page_idx, sorted_blocks, i,
                   page_translated, translated_blocks, batch, k, trace>>

\* translate_text, lines 51-72: the call succeeds; the stripped reply is cached
TranslateTextOk ==
    /\ pc = "single_call"
    /\ Strip(IndividualText) # <<>>
    /\ IndividualKey \notin DOMAIN translation_cache
    /\ \E reply \in SingleReplies :
          /\ translation_cache' = CachePut(translation_cache, IndividualKey, Strip(reply))
          /\ IndividualDone(Strip(reply), TRUE, TRUE)
    /\ outstanding' = outstanding - 1

\* translate_text, lines 74-76: the call raises
TranslateTextFail ==
    /\ pc = "single_call"
    /\ Strip(IndividualText) # <<>>
    /\ IndividualKey \notin DOMAIN translation_cache
    /\ IndividualDone(OriginalOnFailure(IndividualText), TRUE, FALSE)
    /\ UNCHANGED translation_cache
    /\ outstanding' = outstanding - 1

\* _translate_page_blocks returns; translate_text_blocks extends its list
LeavePage ==
    /\ pc = "batches"
    /\ i >= Len(sorted_blocks)
    /\ translated_blocks' = translated_blocks \o page_translated
    /\ page_idx' = page_idx + 1
    /\ pc' = "pages"
    /\ UNCHANGED <<config, source_lang, target_lang, text_blocks, heap, heap0,
                   translation_cache, pages, sorted_blocks, i, page_translated,
                   batch, k, trace>>
    /\ UNCHANGED outstanding

(***************************************************************************)
(* PDFReconstructor._wrap_text (src/reconstructor.py)                      *)
(***************************************************************************)
\* text.split(): the maximal runs of non-whitespace characters, in order
RECURSIVE SplitWords(_, _)
SplitWords(s, word) ==
    IF s = <<>> THEN (IF word = <<>> THEN <<>> ELSE <<word>>)
    ELSE IF IsSpace(Head(s))
         THEN (IF word = <<>> THEN <<>> ELSE <<word>>) \o SplitWords(Tail(s), <<>>)
         ELSE SplitWords(Tail(s), Append(word, Head(s)))

\* len(test_line) * font_size * 0.55
WrapEstimatedWidth(line, font_size) == RMul(RMul(R(Len(line), 1), font_size), R(11, 20))

\* the loop "for word in words" followed by the flush of current_line
RECURSIVE WrapLoop(_, _, _, _, _)
WrapLoop(words, lines, current_line, font_size, width) ==
    IF words = <<>>
    THEN IF current_line # <<>> THEN Append(lines, JoinWithSpace(current_line)) ELSE lines
    ELSE LET word == Head(words)
             test_line == JoinWithSpace(Append(current_line, word))
         IN IF RLe(WrapEstimatedWidth(test_line, font_size), width)
            THEN WrapLoop(Tail(words), lines, Append(current_line, word), font_size, width)
            ELSE IF current_line # <<>>
                 THEN WrapLoop(Tail(words), Append(lines, JoinWithSpace(current_line)),
                               <<word>>, font_size, width)
                 ELSE WrapLoop(Tail(words), Append(lines, word), <<>>, font_size, width)

\* A wrap that keeps only the lines that fit the width.
WrapFittingLinesOnly(text, font_size, width) ==
    SelectSeq(WrapLoop(SplitWords(text, <<>>), <<>>, <<>>, font_size, width),
              LAMBDA line : RLe(WrapEstimatedWidth(line, font_size), width))

_wrap_text(text, font_size, width) ==
    IF Strip(text) = <<>> THEN <<>>
    ELSE LET lines == WrapLoop(SplitWords(text, <<>>), <<>>, <<>>, font_size, width)
         IN IF lines # <<>> THEN lines ELSE <<text>>

(***************************************************************************)
(* SpecWrap: _wrap_text applied to every text over WrapAlphabet of length  *)
(* at most MaxWrapLen, at two render sizes and at widths from negative to  *)
(* wide enough for the whole text.                                         *)
(***************************************************************************)
WrapAlphabet == {"a", "b", " "}
WrapSizes == {R(6, 1), R(12, 1)}
WrapWidths == {R(-1, 1), R(0, 1), R(7, 1), R(14, 1), R(40, 1)}

WrapOff ==
    /\ wrap_pc = "off"
    /\ wrap_text = <<>>
    /\ wrap_font_size = R(0, 1)
    /\ max_width = R(0, 1)
    /\ wrap_lines = <<>>

WrapInit ==
    /\ wrap_pc = "call"
    /\ wrap_text \in StringsUpTo(WrapAlphabet, MaxWrapLen)
    /\ wrap_font_size \in WrapSizes
    /\ max_width \in WrapWidths
    /\ wrap_lines = <<>>

WrapCall ==
    /\ wrap_pc = "call"
    /\ wrap_lines' = _wrap_text(wrap_text, wrap_font_size, max_width)
    /\ wrap_pc' = "returned"
    /\ UNCHANGED <<wrap_text, wrap_font_size, max_width>>

(***************************************************************************)
(* PDFReconstructor: page composition, page-range batches and the merge    *)
(* (src/reconstructor.py).  A composed page records its source page number,*)
(* its layout and, in drawing order, the fragments whose cover rectangle   *)
(* was drawn, each with whether its text was drawn.                        *)
(***************************************************************************)
PageInfo(n) == [page_number |-> n]

\* page_range=None
None == <<>>

\* A range filter that also takes the page numbered end_page.
PagesInRangeInclusive(ps, start_page, end_page) ==
    SelectSeq(ps, LAMBDA p : start_page <= p.page_number /\ p.page_number <= end_page)

\* [p for p in pages if start_page <= p.page_number < end_page]
PagesInRange(ps, start_page, end_page) ==
    SelectSeq(ps, LAMBDA p : start_page <= p.page_number /\ p.page_number < end_page)

\* [b for b in text_blocks if b.page == page_num], then sort by (y0, x0);
\* the blocks are named by their position in text_blocks
PageTextBlocks(blocks, page_num) ==
    SortedByPosition(blocks, SelectSeq([j \in 1..Len(blocks) |-> j],
                                       LAMBDA id : blocks[id].page = page_num))

\* A batch count that rounds down.
NumBatchesFloor(total, size) == total \div size

\* (total_pages + pages_per_batch - 1) // pages_per_batch
NumBatches(total, size) == (total + size - 1) \div size

\* (start_page, end_page) of batch batch_idx
BatchRange(idx, size, total) ==
    <<idx * size, Min(idx * size + size, total)>>

\* output_dir / f"translated_pages_{start_page + 1:03d}-{end_page:03d}.pdf";
\* the zero-padded numbers are kept as numbers
BatchPath(range) == [name |-> "translated_pages", first |-> range[1] + 1, last |-> range[2]]
OutputPath == [name |-> "output", first |-> 0, last |-> 0]
FinalOutputPath == [name |-> "final", first |-> 0, last |-> 0]

\* A batch loop that stops at the first batch that fails.
AbortAfterFailure(idx, num_batches) == num_batches

\* except Exception: ... continue
NextBatchAfterFailure(idx, num_batches) == idx + 1

\* A save that may run before the page loop has finished.
SaveAnytime(pos, to_process) == TRUE

\* the save follows the loop "for page_info in pages_to_process"
CanSave(pos, to_process) == pos > Len(to_process)

\* An insertion that puts the inserted pages first.
InsertPdfInFront(target, source) == source \o target

\* final_doc.insert_pdf(doc)
insert_pdf(target, source) == target \o source

\* self.doc.save(str(output_path)): the file at the path holds the document
SaveTo(fs, path, content) ==
    {f \in fs : f.path # path} \cup {[path |-> path, content |-> content]}

\* fitz.open(pdf_file): the pages stored at the path
ContentAt(fs, path) == (CHOOSE f \in fs : f.path = path).content

(***************************************************************************)
(* SpecDoc: one PDFReconstructor.  Either create_translation_only_pdf is   *)
(* called once, or the same extraction is composed twice: all pages at     *)
(* once by create_side_by_side_pdf, then by process_large_pdf_in_batches   *)
(* followed by merge_batch_pdfs.  Every drawing, saving and merging        *)
(* primitive may raise.                                                    *)
(***************************************************************************)
\* extract_all: one PageInfo per page, page_number counting from 0
ExtractedPages(n) == [j \in 1..n |-> PageInfo(j - 1)]

\* the fragments of a composed document share one rectangle
DocBoxes == {b \in Boxes : b.x0 = 0 /\ b.y0 = 50}

\* the fragments of an n-page document: up to MaxDocBlocks of them
DocBlockLists(n) ==
    UNION {[1..m -> {TextBlock(<<"a">>, b, p) : b \in DocBoxes, p \in 0..(n - 1)}]
           : m \in 0..MaxDocBlocks}

DocOff ==
    /\ doc_pc = "off"
    /\ doc_pages = <<>>
    /\ doc_text_blocks = <<>>
    /\ pages_per_batch = 1
    /\ caller = "none"
    /\ page_range = None
    /\ pages_to_process = <<>>
    /\ page_pos = 0
    /\ page_text_blocks = <<>>
    /\ block_pos = 0
    /\ doc = <<>>
    /\ batch_idx = 0
    /\ output_files = <<>>
    /\ files = {}
    /\ final_doc = <<>>
    /\ merge_idx = 0
    /\ merge_log = <<>>
    /\ doc_log = <<>>

DocInit ==
    /\ doc_pc = "start"
    /\ \E n \in 1..MaxPages :
          /\ doc_pages = ExtractedPages(n)
          /\ doc_text_blocks \in DocBlockLists(n)
    /\ pages_per_batch \in 1..MaxPagesPerBatch
    /\ caller = "none"
    /\ page_range = None
    /\ pages_to_process = <<>>
    /\ page_pos = 0
    /\ page_text_blocks = <<>>
    /\ block_pos = 0
    /\ doc = <<>>
    /\ batch_idx = 0
    /\ output_files = <<>>
    /\ files = {}
    /\ final_doc = <<>>
    /\ merge_idx = 0
    /\ merge_log = <<>>
    /\ doc_log = <<>>

doc_inputs == <<doc_pages, doc_text_blocks, pages_per_batch>>
merge_state == <<final_doc, merge_idx, merge_log>>

\* the output_path argument of the running create call
CurrentPath == IF caller = "batch" THEN BatchPath(page_range) ELSE OutputPath

\* the start of create_side_by_side_pdf / create_translation_only_pdf:
\* the range filter and self.doc = fitz.open()
EnterCreate(who, range) ==
    /\ caller' = who
    /\ page_range' = range
    /\ pages_to_process' = IF range # None
                           THEN PagesInRange(doc_pages, range[1], range[2])
                           ELSE doc_pages
    /\ doc' = <<>>
    /\ page_pos' = 1
    /\ page_text_blocks' = <<>>
    /\ block_pos' = 0
    /\ doc_pc' = "pages"

\* the create call ends, by returning after the save or by raising; control
\* is back in the caller
LeaveCreate(outcome) ==
    /\ doc_log' = Append(doc_log,
                         [caller |-> caller, page_range |-> page_range, path |-> CurrentPath,
                          pages |-> [j \in 1..Len(pages_to_process) |->
                                         pages_to_process[j].page_number],
                          composed |-> page_pos - 1, outcome |-> outcome])
    /\ IF caller = "translation_only"
       THEN doc_pc' = "done" /\ UNCHANGED <<batch_idx, output_files>>
       ELSE IF caller = "whole"
       THEN doc_pc' = "batches" /\ batch_idx' = 0 /\ output_files' = <<>>
       ELSE /\ doc_pc' = "batches"
            /\ IF outcome = "saved"
               THEN /\ output_files' = Append(output_files, CurrentPath)
                    /\ batch_idx' = batch_idx + 1
               ELSE /\ output_files' = output_files
                    /\ batch_idx' = NextBatchAfterFailure(
                                        batch_idx, NumBatches(Len(doc_pages), pages_per_batch))

\* create_translation_only_pdf(pages, text_blocks, output_path)
CallTranslationOnly ==
    /\ doc_pc = "start"
    /\ EnterCreate("translation_only", None)
    /\ UNCHANGED <<doc_inputs, batch_idx, output_files, files, merge_state, doc_log>>

\* create_side_by_side_pdf(pages, text_blocks, output_path, page_range=None)
CallSideBySide ==
    /\ doc_pc = "start"
    /\ EnterCreate("whole", None)
    /\ UNCHANGED <<doc_inputs, batch_idx, output_files, files, merge_state, doc_log>>

\* process_large_pdf_in_batches, one turn of "for batch_idx in range(num_batches)"
BatchCall ==
    /\ doc_pc = "batches"
    /\ batch_idx < NumBatches(Len(doc_pages), pages_per_batch)
    /\ EnterCreate("batch", BatchRange(batch_idx, pages_per_batch, Len(doc_pages)))
    /\ UNCHANGED <<doc_inputs, batch_idx, output_files, files, merge_state, doc_log>>

\* process_large_pdf_in_batches returns output_files; the caller stops when the
\* list is empty and otherwise calls merge_batch_pdfs(batch_files, ...)
BatchesReturn ==
    /\ doc_pc = "batches"
    /\ batch_idx >= NumBatches(Len(doc_pages), pages_per_batch)
    /\ doc_pc' = IF output_files = <<>> THEN "done" ELSE "merge"
    /\ final_doc' = <<>>
    /\ merge_idx' = 1
    /\ merge_log' = <<>>
    /\ UNCHANGED <<doc_inputs, caller, page_range, pages_to_process, page_pos,
                   page_text_blocks, block_pos, doc, batch_idx, output_files, files,
                   doc_log>>

\* one page: new_page, show_pdf_page, separator and labels, then the page's
\* fragments filtered and sorted
ComposePage ==
    /\ doc_pc = "pages"
    /\ page_pos <= Len(pages_to_process)
    /\ LET page_num == pages_to_process[page_pos].page_number
       IN /\ doc' = Append(doc, [page_number |-> page_num,
                                 layout |-> IF caller = "translation_only"
                                            THEN "translation_only" ELSE "side_by_side",
                                 fragments |-> <<>>])
          /\ page_text_blocks' = PageTextBlocks(doc_text_blocks, page_num)
    /\ block_pos' = 1
    /\ doc_pc' = "blocks"
    /\ UNCHANGED <<doc_inputs, caller, page_range, pages_to_process, page_pos,
                   batch_idx, output_files, files, merge_state, doc_log>>

\* new_page, show_pdf_page, draw_line or insert_text raises: nothing catches it
\* inside the create call
ComposePageFail ==
    /\ doc_pc = "pages"
    /\ page_pos <= Len(pages_to_process)
    /\ LeaveCreate("page_failed")
    /\ UNCHANGED <<doc_inputs, caller, page_range, pages_to_process, page_pos,
                   page_text_blocks, block_pos, doc, files, merge_state>>

\* the fragment at block_pos, with its cover drawn and its text drawn or not
DrawnFragment(text_drawn) ==
    [doc EXCEPT ![Len(doc)].fragments =
        Append(@, [block |-> page_text_blocks[block_pos], text_drawn |-> text_drawn])]

\* one fragment: page.draw_rect, then _add_translated_text draws the lines
DrawFragment ==
    /\ doc_pc = "blocks"
    /\ block_pos <= Len(page_text_blocks)
    /\ doc' = DrawnFragment(TRUE)
    /\ block_pos' = block_pos + 1
    /\ UNCHANGED <<doc_inputs, doc_pc, caller, page_range, pages_to_process, page_pos,
                   page_text_blocks, batch_idx, output_files, files, merge_state,
                   doc_log>>

\* one fragment: page.draw_rect, then drawing the text raises inside the try
\* of _add_translated_text, which logs the error and returns
DrawFragmentTextFail ==
    /\ doc_pc = "blocks"
    /\ block_pos <= Len(page_text_blocks)
    /\ doc' = DrawnFragment(FALSE)
    /\ block_pos' = block_pos + 1
    /\ UNCHANGED <<doc_inputs, doc_pc, caller, page_range, pages_to_process, page_pos,
                   page_text_blocks, batch_idx, output_files, files, merge_state,
                   doc_log>>

\* one fragment: page.draw_rect raises; the call is outside every try of the
\* create call, which it leaves
DrawCoverFail ==
    /\ doc_pc = "blocks"
    /\ block_pos <= Len(page_text_blocks)
    /\ LeaveCreate("cover_failed")
    /\ UNCHANGED <<doc_inputs, caller, page_range, pages_to_process, page_pos,
                   page_text_blocks, block_pos, doc, files, merge_state>>

\* the end of "for text_block in page_text_blocks": next page
PageDone ==
    /\ doc_pc = "blocks"
    /\ block_pos > Len(page_text_blocks)
    /\ page_pos' = page_pos + 1
    /\ doc_pc' = "pages"
    /\ UNCHANGED <<doc_inputs, caller, page_range, pages_to_process, page_text_blocks,
                   block_pos, doc, batch_idx, output_files, files, merge_state, doc_log>>

\* self.doc.save(str(output_path)) after the page loop, then the call returns
Save ==
    /\ doc_pc = "pages"
    /\ CanSave(page_pos, pages_to_process)
    /\ files' = SaveTo(files, CurrentPath, doc)
    /\ LeaveCreate("saved")
    /\ UNCHANGED <<doc_inputs, caller, page_range, pages_to_process, page_pos,
                   page_text_blocks, block_pos, doc, merge_state>>

\* mkdir or self.doc.save raises
SaveFail ==
    /\ doc_pc = "pages"
    /\ CanSave(page_pos, pages_to_process)
    /\ LeaveCreate("save_failed")
    /\ UNCHANGED <<doc_inputs, caller, page_range, pages_to_process, page_pos,
                   page_text_blocks, block_pos, doc, files, merge_state>>

\* merge_batch_pdfs, one turn of the loop: fitz.open(pdf_file) and insert_pdf
MergeFile ==
    /\ doc_pc = "merge"
    /\ merge_idx <= Len(output_files)
    /\ final_doc' = insert_pdf(final_doc, ContentAt(files, output_files[merge_idx]))
    /\ merge_log' = Append(merge_log, [path |-> output_files[merge_idx], merged |-> TRUE])
    /\ merge_idx' = merge_idx + 1
    /\ UNCHANGED <<doc_inputs, doc_pc, caller, page_range, pages_to_process, page_pos,
                   page_text_blocks, block_pos, doc, batch_idx, output_files, files,
                   doc_log>>

\* merge_batch_pdfs, one turn of the loop: fitz.open or insert_pdf raises before
\* any page is inserted; the except clause logs the error
MergeFileFail ==
    /\ doc_pc = "merge"
    /\ merge_idx <= Len(output_files)
    /\ merge_log' = Append(merge_log, [path |-> output_files[merge_idx], merged |-> FALSE])
    /\ merge_idx' = merge_idx + 1
    /\ UNCHANGED <<doc_inputs, doc_pc, caller, page_range, pages_to_process, page_pos,
                   page_text_blocks, block_pos, doc, batch_idx, output_files, files,
                   final_doc, doc_log>>

\* final_doc.save(str(final_output_path))
MergeSave ==
    /\ doc_pc = "merge"
    /\ merge_idx > Len(output_files)
    /\ files' = SaveTo(files, FinalOutputPath, final_doc)
    /\ doc_pc' = "done"
    /\ UNCHANGED <<doc_inputs, caller, page_range, pages_to_process, page_pos,
                   page_text_blocks, block_pos, doc, batch_idx, output_files,
                   merge_state, doc_log>>

\* mkdir or final_doc.save raises
MergeSaveFail ==
    /\ doc_pc = "merge"
    /\ merge_idx > Len(output_files)
    /\ doc_pc' = "done"
    /\ UNCHANGED <<doc_inputs, caller, page_range, pages_to_process, page_pos,
                   page_text_blocks, block_pos, doc, batch_idx, output_files, files,
                   merge_state, doc_log>>

NextDoc ==
    \/ CallTranslationOnly /\ UNCHANGED <<parse_vars, fit_vars, tr_vars, wrap_vars, app_vars, more_vars>>
    \/ CallSideBySide /\ UNCHANGED <<parse_vars, fit_vars, tr_vars, wrap_vars, app_vars, more_vars>>
    \/ BatchCall /\ UNCHANGED <<parse_vars, fit_vars, tr_vars, wrap_vars, app_vars, more_vars>>
    \/ BatchesReturn /\ UNCHANGED <<parse_vars, fit_vars, tr_vars, wrap_vars, app_vars, more_vars>>
    \/ ComposePage /\ UNCHANGED <<parse_vars, fit_vars, tr_vars, wrap_vars, app_vars, more_vars>>
    \/ ComposePageFail /\ UNCHANGED <<parse_vars, fit_vars, tr_vars, wrap_vars, app_vars, more_vars>>
    \/ DrawFragment /\ UNCHANGED <<parse_vars, fit_vars, tr_vars, wrap_vars, app_vars, more_vars>>
    \/ DrawFragmentTextFail /\ UNCHANGED <<parse_vars, fit_vars, tr_vars, wrap_vars, app_vars, more_vars>>
    \/ DrawCoverFail /\ UNCHANGED <<parse_vars, fit_vars, tr_vars, wrap_vars, app_vars, more_vars>>
    \/ PageDone /\ UNCHANGED <<parse_vars, fit_vars, tr_vars, wrap_vars, app_vars, more_vars>>
    \/ Save /\ UNCHANGED <<parse_vars, fit_vars, tr_vars, wrap_vars, app_vars, more_vars>>
    \/ SaveFail /\ UNCHANGED <<parse_vars, fit_vars, tr_vars, wrap_vars, app_vars, more_vars>>
    \/ MergeFile /\ UNCHANGED <<parse_vars, fit_vars, tr_vars, wrap_vars, app_vars, more_vars>>
    \/ MergeFileFail /\ UNCHANGED <<parse_vars, fit_vars, tr_vars, wrap_vars, app_vars, more_vars>>
    \/ MergeSave /\ UNCHANGED <<parse_vars, fit_vars, tr_vars, wrap_vars, app_vars, more_vars>>
    \/ MergeSaveFail /\ UNCHANGED <<parse_vars, fit_vars, tr_vars, wrap_vars, app_vars, more_vars>>

(***************************************************************************)
(* PDFTranslatorApp.translate_pdf (src/main.py).  The extractor, the       *)
(* translator and the reconstructor are called as collaborators: each call *)
(* is recorded in app_calls and its outcome is chosen here.                *)
(***************************************************************************)
UpperLetters == <<"A", "B", "C", "D", "E", "F", "G", "H", "I", "J", "K", "L", "M",
                  "N", "O", "P", "Q", "R", "S", "T", "U", "V", "W", "X", "Y", "Z">>
LowerLetters == <<"a", "b", "c", "d", "e", "f", "g", "h", "i", "j", "k", "l", "m",
                  "n", "o", "p", "q", "r", "s", "t", "u", "v", "w", "x", "y", "z">>

\* str.lower()
Lower(s) ==
    [j \in 1..Len(s) |->
        IF \E n \in 1..Len(UpperLetters) : UpperLetters[n] = s[j]
        THEN LowerLetters[CHOOSE n \in 1..Len(UpperLetters) : UpperLetters[n] = s[j]]
        ELSE s[j]]

\* Path(name).suffix: from the last dot on, when that dot is neither the first
\* nor the last character of the name
Suffix(name) ==
    LET dots == {j \in 2..(Len(name) - 1) : name[j] = "."}
    IN IF dots = {} THEN <<>>
       ELSE SubSeq(name, CHOOSE j \in dots : \A l \in dots : l <= j, Len(name))

\* A validation that accepts every suffix.
AcceptAnySuffix(path) == TRUE

\* input_path.suffix.lower() == '.pdf'
HasPdfSuffix(path) == Lower(Suffix(path)) = <<".", "p", "d", "f">>

\* the file names given as input_path
InputNames ==
    { <<"a", ".", "p", "d", "f">>, <<"a", ".", "P", "D", "F">>, <<"a", ".", "t", "x", "t">>,
      <<"a">>, <<"a", ".", "p", "d", "f", ".", "t", "x", "t">>, <<".", "p", "d", "f">> }

AppOff ==
    /\ app_pc = "off"
    /\ input_path = <<>>
    /\ input_exists = FALSE
    /\ src_lang = <<>>
    /\ has_text_blocks = FALSE
    /\ total_pages = 0
    /\ per_batch = 1
    /\ merge_batches = FALSE
    /\ batch_files = 0
    /\ app_calls = <<>>
    /\ written = {}
    /\ app_result = "none"

\* translate_pdf(input_path, output_path, source_lang, pages_per_batch,
\* merge_batches) about to run; has_text_blocks and total_pages are what the
\* extraction will find in the file
AppInit ==
    /\ app_pc = "call"
    /\ input_path \in InputNames
    /\ input_exists \in BOOLEAN
    /\ src_lang \in {<<"a", "u", "t", "o">>, <<"e", "n">>}
    /\ has_text_blocks \in BOOLEAN
    /\ total_pages \in 1..MaxAppPages
    /\ per_batch \in 1..MaxPagesPerBatch
    /\ merge_batches \in BOOLEAN
    /\ batch_files = 0
    /\ app_calls = <<>>
    /\ written = {}
    /\ app_result = "none"

app_inputs == <<input_path, input_exists, has_text_blocks, total_pages, per_batch,
                merge_batches>>

\* return False, from a validation or from the except clause
ReturnFalse ==
    /\ app_result' = FALSE
    /\ app_pc' = "returned"

\* lines 60-69: the input file is missing or its suffix is not .pdf
ValidateRejects ==
    /\ app_pc = "call"
    /\ ~input_exists \/ ~HasPdfSuffix(input_path)
    /\ ReturnFalse
    /\ UNCHANGED <<app_inputs, src_lang, batch_files, app_calls, written>>

\* lines 60-94: the input passes and the extractor returns its data
ExtractOk ==
    /\ app_pc = "call"
    /\ input_exists /\ HasPdfSuffix(input_path)
    /\ app_calls' = Append(app_calls, "extract_all")
    /\ app_pc' = "extracted"
    /\ UNCHANGED <<app_inputs, src_lang, batch_files, written, app_result>>

\* lines 60-94, 207-209: the input passes and the extractor raises
ExtractFail ==
    /\ app_pc = "call"
    /\ input_exists /\ HasPdfSuffix(input_path)
    /\ app_calls' = Append(app_calls, "extract_all")
    /\ ReturnFalse
    /\ UNCHANGED <<app_inputs, src_lang, batch_files, written>>

\* lines 117-119: detect_language, which returns a code whatever happens
DetectLanguage ==
    /\ app_pc = "extracted"
    /\ src_lang = <<"a", "u", "t", "o">> /\ has_text_blocks
    /\ app_calls' = Append(app_calls, "detect_language")
    /\ src_lang' \in {<<"e", "n">>, <<"r", "u">>}
    /\ UNCHANGED <<app_pc, app_inputs, batch_files, written, app_result>>

\* line 126: translate_text_blocks
TranslateBlocks ==
    /\ app_pc = "extracted"
    /\ ~(src_lang = <<"a", "u", "t", "o">> /\ has_text_blocks)
    /\ app_calls' = Append(app_calls, "translate_text_blocks")
    /\ app_pc' = "translated"
    /\ UNCHANGED <<app_inputs, src_lang, batch_files, written, app_result>>

\* lines 140-165: process_large_pdf_in_batches saves n of the batches
ComposeInBatches ==
    /\ app_pc = "translated"
    /\ total_pages > per_batch
    /\ app_calls' = Append(app_calls, "process_large_pdf_in_batches")
    /\ \E n \in 0..NumBatches(total_pages, per_batch) :
          /\ batch_files' = n
          /\ written' = written \cup {<<"batch", j>> : j \in 1..n}
          /\ IF n = 0 THEN ReturnFalse
             ELSE app_pc' = (IF merge_batches THEN "merge" ELSE "finished")
                  /\ app_result' = app_result
    /\ UNCHANGED <<app_inputs, src_lang>>

\* lines 168-175: merge_batch_pdfs saves the final document
MergeBatches ==
    /\ app_pc = "merge"
    /\ app_calls' = Append(app_calls, "merge_batch_pdfs")
    /\ written' = written \cup {<<"final", 0>>}
    /\ app_pc' = "finished"
    /\ UNCHANGED <<app_inputs, src_lang, batch_files, app_result>>

\* lines 168-175, 207-209: merge_batch_pdfs raises
MergeBatchesFail ==
    /\ app_pc = "merge"
    /\ app_calls' = Append(app_calls, "merge_batch_pdfs")
    /\ ReturnFalse
    /\ UNCHANGED <<app_inputs, src_lang, batch_files, written>>

\* lines 185-197: create_side_by_side_pdf saves the output
ComposeAtOnce ==
    /\ app_pc = "translated"
    /\ ~(total_pages > per_batch)
    /\ app_calls' = Append(app_calls, "create_side_by_side_pdf")
    /\ written' = written \cup {<<"output", 0>>}
    /\ app_pc' = "finished"
    /\ UNCHANGED <<app_inputs, src_lang, batch_files, app_result>>

\* lines 185-197, 207-209: create_side_by_side_pdf raises
ComposeAtOnceFail ==
    /\ app_pc = "translated"
    /\ ~(total_pages > per_batch)
    /\ app_calls' = Append(app_calls, "create_side_by_side_pdf")
    /\ ReturnFalse
    /\ UNCHANGED <<app_inputs, src_lang, batch_files, written>>

\* line 205: return True
ReturnTrue ==
    /\ app_pc = "finished"
    /\ app_result' = TRUE
    /\ app_pc' = "returned"
    /\ UNCHANGED <<app_inputs, src_lang, batch_files, app_calls, written>>

NextApp ==
    \/ ValidateRejects /\ UNCHANGED <<parse_vars, fit_vars, tr_vars, wrap_vars, doc_vars, more_vars>>
    \/ ExtractOk /\ UNCHANGED <<parse_vars, fit_vars, tr_vars, wrap_vars, doc_vars, more_vars>>
    \/ ExtractFail /\ UNCHANGED <<parse_vars, fit_vars, tr_vars, wrap_vars, doc_vars, more_vars>>
    \/ DetectLanguage /\ UNCHANGED <<parse_vars, fit_vars, tr_vars, wrap_vars, doc_vars, more_vars>>
    \/ TranslateBlocks /\ UNCHANGED <<parse_vars, fit_vars, tr_vars, wrap_vars, doc_vars, more_vars>>
    \/ ComposeInBatches /\ UNCHANGED <<parse_vars, fit_vars, tr_vars, wrap_vars, doc_vars, more_vars>>
    \/ MergeBatches /\ UNCHANGED <<parse_vars, fit_vars, tr_vars, wrap_vars, doc_vars, more_vars>>
    \/ MergeBatchesFail /\ UNCHANGED <<parse_vars, fit_vars, tr_vars, wrap_vars, doc_vars, more_vars>>
    \/ ComposeAtOnce /\ UNCHANGED <<parse_vars, fit_vars, tr_vars, wrap_vars, doc_vars, more_vars>>
    \/ ComposeAtOnceFail /\ UNCHANGED <<parse_vars, fit_vars, tr_vars, wrap_vars, doc_vars, more_vars>>
    \/ ReturnTrue /\ UNCHANGED <<parse_vars, fit_vars, tr_vars, wrap_vars, doc_vars, more_vars>>

(***************************************************************************)
(* PDFReconstructor._add_translated_text (src/reconstructor.py)            *)
(***************************************************************************)
RAdd(a, b) == R(a[1] * b[2] + b[1] * a[2], a[2] * b[2])

BaselineFactor == R(3, 4)                              \* 0.75

\* text = text_block.translated_text or text_block.text
AddText ==
    IF add_block.translated_text # <<>> THEN add_block.translated_text
    ELSE add_block.text

\* insert_y = bbox.y0 + (font_size * 0.75)
insert_y(bbox, size) == RAdd(R(bbox.y0, 1), RMul(size, BaselineFactor))

\* insert_point = (bbox.x0 + 1, insert_y)
insert_point(bbox, size) == <<R(bbox.x0 + 1, 1), insert_y(bbox, size)>>

\* line_height = font_size * 1.2
line_height(size) == RMul(size, LineHeightFactor)

\* the rectangles a fragment is drawn into: wide, narrow and zero width,
\* three lines tall, one line tall and zero height
AddWidths == {0, 10, 40}
AddHeights == {0, 12, 40}
AddTexts == {<<"a">>, <<"a", " ", "b">>, <<" ">>}
AddTranslations == {<<>>, <<"b", "b", " ", "a", " ", "b">>}
AddSizes == {R(6, 1), R(12, 1)}

AddOff ==
    /\ add_pc = "off"
    /\ add_block = [text |-> <<>>, translated_text |-> <<>>,
                    bbox |-> [x0 |-> 0, y0 |-> 0, x1 |-> 0, y1 |-> 0], size |-> R(0, 1)]
    /\ unicode_font = FALSE
    /\ add_config = [adjust_font_size |-> TRUE, min_font_size |-> R(6, 1),
                     max_font_reduction |-> R(4, 5)]
    /\ render_size = R(0, 1)
    /\ text_lines = <<>>
    /\ line_pos = 0
    /\ y_offset = R(0, 1)
    /\ drawn = <<>>
    /\ add_errors = 0

\* a PDFReconstructor after __init__ (unicode_font is a path or None),
\* _add_translated_text about to be called for one fragment
AddInit ==
    /\ add_pc = "call"
    /\ add_block \in {[text |-> t, translated_text |-> tt,
                       bbox |-> [x0 |-> 0, y0 |-> 50, x1 |-> w, y1 |-> 50 + h],
                       size |-> sz] :
                         t \in AddTexts, tt \in AddTranslations, w \in AddWidths,
                         h \in AddHeights, sz \in AddSizes}
    /\ unicode_font \in BOOLEAN
    /\ add_config \in {[adjust_font_size |-> a, min_font_size |-> R(6, 1),
                        max_font_reduction |-> R(4, 5)] : a \in BOOLEAN}
    /\ render_size = R(0, 1)
    /\ text_lines = <<>>
    /\ line_pos = 0
    /\ y_offset = R(0, 1)
    /\ drawn = <<>>
    /\ add_errors = 0

\* lines 192-193: if not text.strip(): return
AddReturnBlank ==
    /\ add_pc = "call"
    /\ Strip(AddText) = <<>>
    /\ add_pc' = "done"
    /\ UNCHANGED <<add_block, unicode_font, add_config, render_size, text_lines,
                   line_pos, y_offset, drawn, add_errors>>

\* lines 195-205: the render size, then the try block is entered
AddEnterTry ==
    /\ add_pc = "call"
    /\ Strip(AddText) # <<>>
    /\ render_size' = IF add_config.adjust_font_size
                      THEN _calculate_font_size(AddText, add_block.bbox, add_block.size,
                                                add_config)
                      ELSE add_block.size
    /\ add_pc' = "try"
    /\ UNCHANGED <<add_block, unicode_font, add_config, text_lines, line_pos,
                   y_offset, drawn, add_errors>>

\* lines 208-217: the Unicode font is loaded, the text is wrapped to
\* bbox.width - 2 and the first baseline is the insertion point's
WrapForFont ==
    /\ add_pc = "try"
    /\ unicode_font
    /\ text_lines' = _wrap_text(AddText, render_size, R(Width(add_block.bbox) - 2, 1))
    /\ y_offset' = insert_point(add_block.bbox, render_size)[2]
    /\ line_pos' = 0
    /\ add_pc' = "lines"
    /\ UNCHANGED <<add_block, unicode_font, add_config, render_size, drawn, add_errors>>

\* lines 219-231: one line is written at (insert_point[0], y_offset)
WriteLine ==
    /\ add_pc = "lines"
    /\ line_pos < Len(text_lines)
    /\ ~RLt(R(add_block.bbox.y1, 1), y_offset)
    /\ drawn' = Append(drawn, [pos |-> <<insert_point(add_block.bbox, render_size)[1],
                                        y_offset>>,
                               text |-> text_lines[line_pos + 1],
                               fontsize |-> render_size,
                               fontname |-> "unicode"])
    /\ y_offset' = RAdd(y_offset, line_height(render_size))
    /\ line_pos' = line_pos + 1
    /\ UNCHANGED <<add_pc, add_block, unicode_font, add_config, render_size,
                   text_lines, add_errors>>

\* lines 220-221: if y_offset > bbox.y1: break
StopAtBottom ==
    /\ add_pc = "lines"
    /\ line_pos < Len(text_lines)
    /\ RLt(R(add_block.bbox.y1, 1), y_offset)
    /\ add_pc' = "done"
    /\ UNCHANGED <<add_block, unicode_font, add_config, render_size, text_lines,
                   line_pos, y_offset, drawn, add_errors>>

\* the for loop is exhausted
LinesDone ==
    /\ add_pc = "lines"
    /\ line_pos = Len(text_lines)
    /\ add_pc' = "done"
    /\ UNCHANGED <<add_block, unicode_font, add_config, render_size, text_lines,
                   line_pos, y_offset, drawn, add_errors>>

\* lines 233-241: no Unicode font; page.insert_text draws the whole text at
\* insert_point with the built-in face
InsertText ==
    /\ add_pc = "try"
    /\ ~unicode_font
    /\ drawn' = Append(drawn, [pos |-> insert_point(add_block.bbox, render_size),
                               text |-> AddText,
                               fontsize |-> render_size,
                               fontname |-> "helv"])
    /\ add_pc' = "done"
    /\ UNCHANGED <<add_block, unicode_font, add_config, render_size, text_lines,
                   line_pos, y_offset, add_errors>>

\* lines 243-244: a PyMuPDF call inside the try raises (fitz.Font, the
\* writer, insert_text); the exception is logged and the method returns
AddTextFails ==
    /\ \/ add_pc = "try"
       \/ /\ add_pc = "lines"
          /\ line_pos < Len(text_lines)
          /\ ~RLt(R(add_block.bbox.y1, 1), y_offset)
    /\ add_errors' = add_errors + 1
    /\ add_pc' = "done"
    /\ UNCHANGED <<add_block, unicode_font, add_config, render_size, text_lines,
                   line_pos, y_offset, drawn>>

(***************************************************************************)
(* The source language step: PDFTranslatorApp.translate_pdf (src/main.py), *)
(* the /translate handler (src/web_app.py), TextTranslator.detect_language *)
(***************************************************************************)
Auto == <<"a", "u", "t", "o">>
En == <<"e", "n">>
Ru == <<"r", "u">>

MaxLangBlocks == 6      \* most fragments of a document in SpecLang
SampleSize == 5         \* text_blocks[:5]

\* ' '.join([b.text for b in text_blocks[:5]])
sample_text(texts) ==
    JoinWithSpace(SubSeq(texts, 1, IF Len(texts) < SampleSize THEN Len(texts)
                                   ELSE SampleSize))

\* what the model may answer to the detection prompt
DetectReplies == {<<"r", "u">>, <<" ", "D", "E", " ">>}

\* response.choices[0].message.content.strip().lower()
detected_lang(reply) == Lower(Strip(reply))

LangOff ==
    /\ lang_pc = "off"
    /\ entry = "main"
    /\ given_lang = <<>>
    /\ config_lang = Auto
    /\ block_texts = <<>>
    /\ lang_src = <<>>
    /\ lang_calls = <<>>

\* the document has been extracted; the translation step is about to start
LangInit ==
    /\ lang_pc = "call"
    /\ entry \in {"main", "web_app"}
    /\ given_lang \in {<<>>, Auto, En}
    /\ config_lang \in {Auto, Ru}
    /\ \E n \in 0..MaxLangBlocks :
          block_texts \in [1..n -> {<<"a">>}] \cup [1..n -> {<<"b">>}]
          \cup {[j \in 1..n |-> IF j <= SampleSize THEN <<"a">> ELSE <<"b">>]}
    /\ lang_src = <<>>
    /\ lang_calls = <<>>

\* main.py line 113: src_lang = source_lang or self.config.source_language
MainResolve ==
    /\ lang_pc = "call"
    /\ entry = "main"
    /\ lang_src' = IF given_lang # <<>> THEN given_lang ELSE config_lang
    /\ lang_pc' = "language"
    /\ UNCHANGED <<entry, given_lang, config_lang, block_texts, lang_calls>>

\* main.py lines 117-119, translator.py 389-402: the detection call answers
MainDetectOk ==
    /\ lang_pc = "language"
    /\ lang_src = Auto /\ block_texts # <<>>
    /\ \E reply \in DetectReplies :
          /\ lang_src' = detected_lang(reply)
          /\ lang_calls' = Append(lang_calls, [kind |-> "detect",
                                               text |-> sample_text(block_texts),
                                               ok |-> TRUE,
                                               code |-> detected_lang(reply)])
    /\ lang_pc' = "translate"
    /\ UNCHANGED <<entry, given_lang, config_lang, block_texts>>

\* translator.py lines 404-406: the detection call raises; "en" is returned
MainDetectFail ==
    /\ lang_pc = "language"
    /\ lang_src = Auto /\ block_texts # <<>>
    /\ lang_src' = En
    /\ lang_calls' = Append(lang_calls, [kind |-> "detect",
                                         text |-> sample_text(block_texts),
                                         ok |-> FALSE, code |-> En])
    /\ lang_pc' = "translate"
    /\ UNCHANGED <<entry, given_lang, config_lang, block_texts>>

\* main.py line 117: the condition is false, no detection
MainNoDetect ==
    /\ lang_pc = "language"
    /\ ~(lang_src = Auto /\ block_texts # <<>>)
    /\ lang_pc' = "translate"
    /\ UNCHANGED <<entry, given_lang, config_lang, block_texts, lang_src, lang_calls>>

\* web_app.py line 47: source_lang = request.form.get('source_lang', 'auto')
WebResolve ==
    /\ lang_pc = "call"
    /\ entry = "web_app"
    /\ lang_src' = IF given_lang # <<>> THEN given_lang ELSE Auto
    /\ lang_pc' = "translate"
    /\ UNCHANGED <<entry, given_lang, config_lang, block_texts, lang_calls>>

\* main.py lines 126-128, web_app.py lines 76-78:
\* translate_text_blocks(text_blocks, src_lang, tgt_lang)
LangTranslate ==
    /\ lang_pc = "translate"
    /\ lang_calls' = Append(lang_calls, [kind |-> "translate", text |-> <<>>,
                                         ok |-> TRUE, code |-> lang_src])
    /\ lang_pc' = "done"
    /\ UNCHANGED <<entry, given_lang, config_lang, block_texts, lang_src>>

(***************************************************************************)
(* SpecText: TextTranslator.translate_text called with any text and any    *)
(* pair of language codes, several times on one instance                   *)
(***************************************************************************)
CallTexts == {<<"a">>, <<"a", ":", "b">>, <<" ">>}
CallSourceLangs == {<<"b">>, <<"c">>, <<"b", ":", "c">>}
CallTargetLangs == {<<"c">>, <<"d">>}

TextOff ==
    /\ tt_cache = EmptyCache
    /\ tt_calls = <<>>

\* TextTranslator.__init__: self.translation_cache = {}
TextInit ==
    /\ tt_cache = EmptyCache
    /\ tt_calls = <<>>

TextCalled(text, src, tgt, result, hit, stored) ==
    tt_calls' = Append(tt_calls, [text |-> text, source_lang |-> src,
                                  target_lang |-> tgt, result |-> result,
                                  hit |-> hit, stored |-> stored])

\* lines 43-44: a blank text is returned as it is
TextBlank ==
    /\ Len(tt_calls) < MaxTextCalls
    /\ \E text \in CallTexts, src \in CallSourceLangs, tgt \in CallTargetLangs :
          /\ Strip(text) = <<>>
          /\ TextCalled(text, src, tgt, text, FALSE, FALSE)
    /\ UNCHANGED tt_cache

\* lines 46-49: the key is in the cache; its value is returned
TextCached ==
    /\ Len(tt_calls) < MaxTextCalls
    /\ \E text \in CallTexts, src \in CallSourceLangs, tgt \in CallTargetLangs :
          /\ Strip(text) # <<>>
          /\ CacheKey(text, src, tgt) \in DOMAIN tt_cache
          /\ TextCalled(text, src, tgt, tt_cache[CacheKey(text, src, tgt)], TRUE, FALSE)
    /\ UNCHANGED tt_cache

\* lines 51-72: the call answers; the stripped reply is cached and returned
TextOk ==
    /\ Len(tt_calls) < MaxTextCalls
    /\ \E text \in CallTexts, src \in CallSourceLangs, tgt \in CallTargetLangs,
          reply \in SingleReplies :
          /\ Strip(text) # <<>>
          /\ CacheKey(text, src, tgt) \notin DOMAIN tt_cache
          /\ tt_cache' = CachePut(tt_cache, CacheKey(text, src, tgt), Strip(reply))
          /\ TextCalled(text, src, tgt, Strip(reply), FALSE, TRUE)

\* lines 74-76: the call raises; the text is returned, nothing is cached
TextFail ==
    /\ Len(tt_calls) < MaxTextCalls
    /\ \E text \in CallTexts, src \in CallSourceLangs, tgt \in CallTargetLangs :
          /\ Strip(text) # <<>>
          /\ CacheKey(text, src, tgt) \notin DOMAIN tt_cache
          /\ TextCalled(text, src, tgt, OriginalOnFailure(text), FALSE, FALSE)
    /\ UNCHANGED tt_cache

(***************************************************************************)
(* SpecServer: src/server.py.  tasks is a dict shared by the request        *)
(* handlers (app.run(threaded=True)) and one daemon thread per upload;      *)
(* no lock guards it.  A task's dict is a function from its keys; a key     *)
(* that was never assigned is not in its domain.                            *)
(***************************************************************************)
TaskIds == 1..MaxTasks

\* tasks[task_id][key] = value
SetField(table, t, key, value) ==
    [table EXCEPT ![t] = [f \in (DOMAIN table[t]) \cup {key} |->
                              IF f = key THEN value ELSE table[t][f]]]

\* lines 776-781: the dict a new task starts with
NewTask ==
    [f \in {"status", "progress", "stage", "filename"} |->
        IF f = "status" THEN "pending"
        ELSE IF f = "progress" THEN "0"
        ELSE IF f = "stage" THEN "init"
        ELSE "file.pdf"]

ServerOff ==
    /\ tasks = <<>>
    /\ worker_pc = <<>>
    /\ req_pc = "off"
    /\ req_kind = "download"
    /\ req_task = 0
    /\ responses = <<>>

\* the module is loaded: tasks = {}
ServerInit ==
    /\ tasks = <<>>
    /\ worker_pc = [t \in TaskIds |-> "none"]
    /\ req_pc = "idle"
    /\ req_kind = "download"
    /\ req_task = 0
    /\ responses = <<>>

\* upload / api_translate, lines 776-791 (861-874): the task is entered and
\* its thread started; task ids are fresh (uuid4)
Upload(t) ==
    /\ t = Len(tasks) + 1
    /\ t \in TaskIds
    /\ tasks' = Append(tasks, NewTask)
    /\ worker_pc' = [worker_pc EXCEPT ![t] = "start"]
    /\ UNCHANGED <<req_pc, req_kind, req_task, responses>>

WorkerStep(t, from, to, table) ==
    /\ t \in DOMAIN tasks
    /\ worker_pc[t] = from
    /\ tasks' = table
    /\ worker_pc' = [worker_pc EXCEPT ![t] = to]
    /\ UNCHANGED <<req_pc, req_kind, req_task, responses>>

\* lines 341-342
WorkerBegin(t) ==
    WorkerStep(t, "start", "extract",
               SetField(SetField(tasks, t, "status", "processing"), t, "progress", "0"))

\* lines 344-358: the PDF is opened, images and text are extracted
WorkerExtract(t) ==
    WorkerStep(t, "extract", "translate",
               SetField(SetField(tasks, t, "total_pages", "n"), t, "stage", "extract"))

\* lines 361-366: the blocks are translated; progress reaches 100 when the
\* last block is a text block and stays behind otherwise
WorkerTranslate(t) ==
    \E p \in {"0", "100"} :
        WorkerStep(t, "translate", "generate",
                   SetField(SetField(tasks, t, "stage", "translate"), t, "progress", p))

\* lines 368-382: the HTML and the archive are written
WorkerGenerate(t) ==
    WorkerStep(t, "generate", "set_status", SetField(tasks, t, "stage", "archive"))

\* line 384: tasks[task_id]['status'] = 'completed'
WorkerSetCompleted(t) ==
    WorkerStep(t, "set_status", "set_result_path",
               SetField(tasks, t, "status", "completed"))

\* line 385: tasks[task_id]['result_path'] = zip_path
WorkerSetResultPath(t) ==
    WorkerStep(t, "set_result_path", "set_html_path",
               SetField(tasks, t, "result_path", "result.zip"))

\* line 386: tasks[task_id]['html_path'] = html_path
WorkerSetHtmlPath(t) ==
    WorkerStep(t, "set_html_path", "set_progress",
               SetField(tasks, t, "html_path", "translated_document.html"))

\* line 387: tasks[task_id]['progress'] = 100
WorkerSetProgress(t) ==
    WorkerStep(t, "set_progress", "finished", SetField(tasks, t, "progress", "100"))

\* lines 389-390: a step of the try block raises
WorkerRaise(t) ==
    \E from \in {"start", "extract", "translate", "generate"} :
        WorkerStep(t, from, "set_error", SetField(tasks, t, "status", "error"))

\* line 391: tasks[task_id]['error'] = str(e)
WorkerSetError(t) ==
    WorkerStep(t, "set_error", "finished", SetField(tasks, t, "error", "message"))

Responded(kind, t, outcome) ==
    /\ responses' = Append(responses, [kind |-> kind, task |-> t, outcome |-> outcome])
    /\ req_pc' = "idle"
    /\ UNCHANGED <<tasks, worker_pc, req_kind, req_task>>

\* download / view, lines 802-803 (819-820): unknown task id
RequestNotFound(kind, t) ==
    /\ req_pc = "idle"
    /\ Len(responses) < MaxRequests
    /\ t \notin DOMAIN tasks
    /\ Responded(kind, t, "404")

\* lines 805-808 (822-825): the task is not completed
RequestNotCompleted(kind, t) ==
    /\ req_pc = "idle"
    /\ Len(responses) < MaxRequests
    /\ t \in DOMAIN tasks
    /\ tasks[t]["status"] # "completed"
    /\ Responded(kind, t, "400")

\* lines 805-808 (822-825): the status check is passed
RequestPassCheck(kind, t) ==
    /\ req_pc = "idle"
    /\ Len(responses) < MaxRequests
    /\ t \in DOMAIN tasks
    /\ tasks[t]["status"] = "completed"
    /\ req_pc' = "checked"
    /\ req_kind' = kind
    /\ req_task' = t
    /\ UNCHANGED <<tasks, worker_pc, responses>>

\* the key the handler reads next: task['result_path'] / task['html_path']
RequestKey == IF req_kind = "download" THEN "result_path" ELSE "html_path"

\* lines 810-815 (827-830): the path is read and the file is sent
RequestServe ==
    /\ req_pc = "checked"
    /\ RequestKey \in DOMAIN tasks[req_task]
    /\ Responded(req_kind, req_task, "200")

\* line 811 (827): the key is missing, the subscript raises KeyError
RequestKeyError ==
    /\ req_pc = "checked"
    /\ RequestKey \notin DOMAIN tasks[req_task]
    /\ Responded(req_kind, req_task, "KeyError")

MoreOff == AddOff /\ LangOff /\ TextOff /\ ServerOff

ExtOff == WrapOff /\ DocOff /\ AppOff /\ MoreOff

Init == ParseOff /\ FitOff /\ TranslatorInit /\ ExtOff

Next ==
    \/ GroupPages /\ UNCHANGED <<parse_vars, fit_vars, ext_vars>>
    \/ EnterPage /\ UNCHANGED <<parse_vars, fit_vars, ext_vars>>
    \/ ReturnBlocks /\ UNCHANGED <<parse_vars, fit_vars, ext_vars>>
    \/ BatchAllBlank /\ UNCHANGED <<parse_vars, fit_vars, ext_vars>>
    \/ SendBatch /\ UNCHANGED <<parse_vars, fit_vars, ext_vars>>
    \/ BatchCallFail /\ UNCHANGED <<parse_vars, fit_vars, ext_vars>>
    \/ TranslateTextBlank /\ UNCHANGED <<parse_vars, fit_vars, ext_vars>>
    \/ TranslateTextCached /\ UNCHANGED <<parse_vars, fit_vars, ext_vars>>
    \/ SendSingle /\ UNCHANGED <<parse_vars, fit_vars, ext_vars>>
    \/ TranslateTextFail /\ UNCHANGED <<parse_vars, fit_vars, ext_vars>>
    \/ LeavePage /\ UNCHANGED <<parse_vars, fit_vars, ext_vars>>
    \/ BatchCallOk /\ UNCHANGED <<parse_vars, fit_vars, ext_vars>>
    \/ TranslateTextOk /\ UNCHANGED <<parse_vars, fit_vars, ext_vars>>

Spec == Init /\ [][Next]_vars

\* translate_text_blocks runs on one thread that is never suspended for ever,
\* and every chat-completion request is answered or raises: some step of the
\* call is taken as long as one is possible
SpecLive == Spec /\ WF_vars(Next)

InitParse == ParseInit /\ FitOff /\ TranslatorOff /\ ExtOff
NextParse == ParseCall /\ UNCHANGED <<fit_vars, tr_vars, ext_vars>>
SpecParse == InitParse /\ [][NextParse]_vars

InitFit == ParseOff /\ FitInit /\ TranslatorOff /\ ExtOff
NextFit == FitCall /\ UNCHANGED <<parse_vars, tr_vars, ext_vars>>
SpecFit == InitFit /\ [][NextFit]_vars

InitWrap == ParseOff /\ FitOff /\ TranslatorOff /\ WrapInit /\ DocOff /\ AppOff /\ MoreOff
NextWrap == WrapCall /\ UNCHANGED <<parse_vars, fit_vars, tr_vars, doc_vars, app_vars, more_vars>>
SpecWrap == InitWrap /\ [][NextWrap]_vars

InitDoc == ParseOff /\ FitOff /\ TranslatorOff /\ WrapOff /\ DocInit /\ AppOff /\ MoreOff
SpecDoc == InitDoc /\ [][NextDoc]_vars

InitApp == ParseOff /\ FitOff /\ TranslatorOff /\ WrapOff /\ DocOff /\ AppInit /\ MoreOff
SpecApp == InitApp /\ [][NextApp]_vars

BaseOff == ParseOff /\ FitOff /\ TranslatorOff /\ WrapOff /\ DocOff /\ AppOff

InitDraw == BaseOff /\ AddInit /\ LangOff /\ TextOff /\ ServerOff
NextDraw ==
    \/ AddReturnBlank /\ UNCHANGED <<base_vars, lang_vars, tt_vars, srv_vars>>
    \/ AddEnterTry /\ UNCHANGED <<base_vars, lang_vars, tt_vars, srv_vars>>
    \/ WrapForFont /\ UNCHANGED <<base_vars, lang_vars, tt_vars, srv_vars>>
    \/ WriteLine /\ UNCHANGED <<base_vars, lang_vars, tt_vars, srv_vars>>
    \/ StopAtBottom /\ UNCHANGED <<base_vars, lang_vars, tt_vars, srv_vars>>
    \/ LinesDone /\ UNCHANGED <<base_vars, lang_vars, tt_vars, srv_vars>>
    \/ InsertText /\ UNCHANGED <<base_vars, lang_vars, tt_vars, srv_vars>>
    \/ AddTextFails /\ UNCHANGED <<base_vars, lang_vars, tt_vars, srv_vars>>
SpecDraw == InitDraw /\ [][NextDraw]_vars

InitLang == BaseOff /\ AddOff /\ LangInit /\ TextOff /\ ServerOff
NextLang ==
    \/ MainResolve /\ UNCHANGED <<base_vars, add_vars, tt_vars, srv_vars>>
    \/ MainDetectOk /\ UNCHANGED <<base_vars, add_vars, tt_vars, srv_vars>>
    \/ MainDetectFail /\ UNCHANGED <<base_vars, add_vars, tt_vars, srv_vars>>
    \/ MainNoDetect /\ UNCHANGED <<base_vars, add_vars, tt_vars, srv_vars>>
    \/ WebResolve /\ UNCHANGED <<base_vars, add_vars, tt_vars, srv_vars>>
    \/ LangTranslate /\ UNCHANGED <<base_vars, add_vars, tt_vars, srv_vars>>
SpecLang == InitLang /\ [][NextLang]_vars

InitText == BaseOff /\ AddOff /\ LangOff /\ TextInit /\ ServerOff
NextText ==
    \/ TextBlank /\ UNCHANGED <<base_vars, add_vars, lang_vars, srv_vars>>
    \/ TextCached /\ UNCHANGED <<base_vars, add_vars, lang_vars, srv_vars>>
    \/ TextOk /\ UNCHANGED <<base_vars, add_vars, lang_vars, srv_vars>>
    \/ TextFail /\ UNCHANGED <<base_vars, add_vars, lang_vars, srv_vars>>
SpecText == InitText /\ [][NextText]_vars

InitServer == BaseOff /\ AddOff /\ LangOff /\ TextOff /\ ServerInit
NextServer ==
    \/ (\E t \in TaskIds : Upload(t)) /\ UNCHANGED <<base_vars, add_vars, lang_vars, tt_vars>>
    \/ (\E t \in TaskIds : WorkerBegin(t)) /\ UNCHANGED <<base_vars, add_vars, lang_vars, tt_vars>>
    \/ (\E t \in TaskIds : WorkerExtract(t)) /\ UNCHANGED <<base_vars, add_vars, lang_vars, tt_vars>>
    \/ (\E t \in TaskIds : WorkerTranslate(t)) /\ UNCHANGED <<base_vars, add_vars, lang_vars, tt_vars>>
    \/ (\E t \in TaskIds : WorkerGenerate(t)) /\ UNCHANGED <<base_vars, add_vars, lang_vars, tt_vars>>
    \/ (\E t \in TaskIds : WorkerSetCompleted(t)) /\ UNCHANGED <<base_vars, add_vars, lang_vars, tt_vars>>
    \/ (\E t \in TaskIds : WorkerSetResultPath(t)) /\ UNCHANGED <<base_vars, add_vars, lang_vars, tt_vars>>
    \/ (\E t \in TaskIds : WorkerSetHtmlPath(t)) /\ UNCHANGED <<base_vars, add_vars, lang_vars, tt_vars>>
    \/ (\E t \in TaskIds : WorkerSetProgress(t)) /\ UNCHANGED <<base_vars, add_vars, lang_vars, tt_vars>>
    \/ (\E t \in TaskIds : WorkerRaise(t)) /\ UNCHANGED <<base_vars, add_vars, lang_vars, tt_vars>>
    \/ (\E t \in TaskIds : WorkerSetError(t)) /\ UNCHANGED <<base_vars, add_vars, lang_vars, tt_vars>>
    \/ (\E kind \in {"download", "view"}, t \in TaskIds : RequestNotFound(kind, t))
          /\ UNCHANGED <<base_vars, add_vars, lang_vars, tt_vars>>
    \/ (\E kind \in {"download", "view"}, t \in TaskIds : RequestNotCompleted(kind, t))
          /\ UNCHANGED <<base_vars, add_vars, lang_vars, tt_vars>>
    \/ (\E kind \in {"download", "view"}, t \in TaskIds : RequestPassCheck(kind, t))
          /\ UNCHANGED <<base_vars, add_vars, lang_vars, tt_vars>>
    \/ RequestServe /\ UNCHANGED <<base_vars, add_vars, lang_vars, tt_vars>>
    \/ RequestKeyError /\ UNCHANGED <<base_vars, add_vars, lang_vars, tt_vars>>
SpecServer == InitServer /\ [][NextServer]_vars

(***************************************************************************)
(* Properties.  Helper definitions used only by the properties.            *)
(***************************************************************************)
NonBlank(s) == Strip(s) # <<>>

\* a trimmed segment without its leading one-digit ordinal "N."
WithoutOrdinal(seg) ==
    IF Len(seg) >= 2 /\ seg[1] \in {"1", "2", "3", "4", "5", "6", "7", "8", "9"} /\ seg[2] = "."
    THEN Strip(DropFirst(seg, 2))
    ELSE seg

\* the delimiter-separated segments of a reply, trimmed
TrimmedSegments(resp) ==
    LET parts == Split(resp, Separator)
    IN [j \in 1..Len(parts) |-> Strip(parts[j])]

\* the segments a reply yields: the trimmed segments that are not empty
YieldedSegments(resp) ==
    LET kept == SelectSeq(TrimmedSegments(resp), NonBlank)
    IN [j \in 1..Len(kept) |-> WithoutOrdinal(kept[j])]

\* C1: the parsed list has exactly expected_count entries: the segments the
\* reply yields, in order, padded at the tail with "" when they are fewer and
\* cut to the first expected_count when they are more.
C1_ParseLengthExact ==
    parse_pc = "returned" =>
        /\ Len(parse_result) = expected_count
        /\ \A j \in 1..expected_count :
              parse_result[j] = IF j <= Len(YieldedSegments(response))
                                THEN YieldedSegments(response)[j]
                                ELSE <<>>

\* C1 witness: a reply that yields two segments is parsed for three texts
C1_Witness ==
    /\ parse_pc = "returned"
    /\ expected_count = 3
    /\ Len(YieldedSegments(response)) = 2
    /\ parse_result[3] = <<>>

\* C2: every delimiter-separated segment keeps its own position: the j-th
\* segment of the reply (trimmed, ordinal removed), empty or not, is entry j of
\* the parsed list for every j up to the expected count.
C2_EmptySegmentKeepsPosition ==
    parse_pc = "returned" =>
        \A j \in 1..Min(expected_count, Len(TrimmedSegments(response))) :
            parse_result[j] = WithoutOrdinal(TrimmedSegments(response)[j])

BlockKey(id) == <<heap[id].bbox.y0, heap[id].bbox.x0>>

\* (y0, x0) of a is not after (y0, x0) of b
KeyNotAfter(a, b) ==
    \/ BlockKey(a)[1] < BlockKey(b)[1]
    \/ BlockKey(a)[1] = BlockKey(b)[1] /\ BlockKey(a)[2] <= BlockKey(b)[2]

NonBlankBlocks(ids) == SelectSeq(ids, LAMBDA id : NonBlank(heap[id].text))

\* the blocks of the batch calls made so far for the blocks of `page`, in call order
RECURSIVE BatchedOrder(_, _)
BatchedOrder(events, page) ==
    IF events = <<>> THEN <<>>
    ELSE (IF Head(events).kind = "batch" /\ heap[Head(events).blocks[1]].page = page
          THEN Head(events).blocks ELSE <<>>)
         \o BatchedOrder(Tail(events), page)

\* C3: a page is processed in (y0, x0) order whatever order it was supplied
\* in, and the i-th parsed translation of a batch is the rendered text of the
\* i-th non-blank fragment of that batch.
C3_OrderPreserved ==
    /\ pc \in {"batches", "batch_call", "individual", "single_call"} =>
          /\ Len(sorted_blocks) = Len(pages[page_idx].blocks)
          /\ {sorted_blocks[j] : j \in 1..Len(sorted_blocks)}
                = {pages[page_idx].blocks[j] : j \in 1..Len(sorted_blocks)}
          /\ \A a, b \in 1..Len(sorted_blocks) :
                a < b => KeyNotAfter(sorted_blocks[a], sorted_blocks[b])
    /\ \A p \in PageNumbers :
          LET order == BatchedOrder(trace, p)
          IN \A a, b \in 1..Len(order) : a < b => KeyNotAfter(order[a], order[b])
    /\ \A n \in 1..Len(trace) :
          trace[n].kind = "batch" /\ trace[n].ok =>
              LET targets == NonBlankBlocks(trace[n].blocks)
              IN /\ Len(trace[n].translations) = Len(targets)
                 /\ \A j \in 1..Len(targets) :
                       heap[targets[j]].translated_text = trace[n].translations[j]

\* C3 witness: a batch of two non-blank fragments supplied in the opposite of
\* their reading order has been translated with a two-segment reply
C3_Witness ==
    \E n \in 1..Len(trace) :
        /\ trace[n].kind = "batch" /\ trace[n].ok
        /\ trace[n].blocks = <<2, 1>>
        /\ Len(trace[n].texts) = 2
        /\ trace[n].translations = <<(<<"X">>), (<<"Y">>)>>
        /\ heap[2].translated_text = <<"X">>

\* C4: after a failed batch call the next events are translate_text invocations
\* for every fragment of that batch, in order, and none is skipped; a fragment
\* whose own call fails is rendered as its source text.
C4_FailurePolicy ==
    \A n \in 1..Len(trace) :
        trace[n].kind = "batch" /\ ~trace[n].ok =>
            LET b == trace[n].blocks
            IN /\ \A j \in 1..Len(b) :
                     IF n + j <= Len(trace)
                     THEN /\ trace[n + j].kind = "single"
                          /\ trace[n + j].blocks = <<b[j]>>
                          /\ trace[n + j].texts = <<heap0[b[j]].text>>
                          /\ heap[b[j]].translated_text = trace[n + j].translations[1]
                          /\ (trace[n + j].external /\ ~trace[n + j].ok)
                                => heap[b[j]].translated_text = heap0[b[j]].text
                     ELSE pc \in {"individual", "single_call"} /\ batch = b /\ k = Len(trace) - n + 1

\* C4 witness: a batch call failed, then the call of one of its fragments failed
C4_Witness ==
    /\ pc = "done"
    /\ \E n \in 1..Len(trace) :
          /\ trace[n].kind = "single" /\ trace[n].external /\ ~trace[n].ok
          /\ heap[trace[n].blocks[1]].translated_text = <<"a">>

\* C5: every input fragment is returned exactly once, and nothing but
\* translated_text is ever written to a fragment.
C5_FragmentsPreserved ==
    /\ DOMAIN heap = DOMAIN heap0
    /\ \A id \in DOMAIN heap :
          /\ heap[id].page = heap0[id].page
          /\ heap[id].bbox = heap0[id].bbox
          /\ heap[id].text = heap0[id].text
    /\ pc = "done" =>
          /\ Len(translated_blocks) = Len(text_blocks)
          /\ \A id \in DOMAIN heap0 :
                Cardinality({j \in 1..Len(translated_blocks) : translated_blocks[j] = id}) = 1

\* C5 witness: a two-page, two-fragment input has been returned after a
\* failed call and a successful one
C5_Witness ==
    /\ pc = "done"
    /\ Len(pages) = 2
    /\ Len(translated_blocks) = 2
    /\ \E m, n \in 1..Len(trace) : trace[m].external /\ ~trace[m].ok /\ trace[n].ok

EventTexts(e) == {e.texts[j] : j \in 1..Len(e.texts)}

\* C6: once a text has been translated by a successful external call, no later
\* external call carries the same text, and fragments with that text that were
\* rendered by different calls, from a reply or from the cache, have the same
\* rendered text.
\* (A call that failed translated nothing; it is not counted.)
C6_CacheIdempotence ==
    /\ \A m, n \in 1..Len(trace) :
          (m < n /\ trace[m].external /\ trace[m].ok /\ trace[n].external)
              => EventTexts(trace[m]) \cap EventTexts(trace[n]) = {}
    /\ \A m, n \in 1..Len(trace) :
          (m < n /\ trace[m].ok /\ trace[n].ok) =>
              \A x \in 1..Len(trace[m].blocks), y \in 1..Len(trace[n].blocks) :
                  LET bx == trace[m].blocks[x]
                      by == trace[n].blocks[y]
                  IN (heap[bx].text = heap[by].text /\ NonBlank(heap[bx].text))
                         => heap[bx].translated_text = heap[by].translated_text

\* C7: a cache entry, once written, never changes.
C7_CacheWriteOnce ==
    [][\A key \in DOMAIN translation_cache :
           /\ key \in DOMAIN translation_cache'
           /\ translation_cache'[key] = translation_cache[key]]_vars

\* C8: no external call carries a text whose key was in the cache when the
\* call was made.
C8_CacheHitBypassesNetwork ==
    \A n \in 1..Len(trace) :
        trace[n].external =>
            \A t \in EventTexts(trace[n]) :
                CacheKey(t, source_lang, target_lang) \notin trace[n].cached

\* the text fits its rectangle at the original size n/d:
\*   len * size * 0.55 <= width * 0.95  and  size * 1.2 <= height * 0.90
TextFits(text, bbox, size) ==
    /\ 11 * Len(text) * size[1] <= 19 * (bbox.x1 - bbox.x0) * size[2]
    /\ 4 * size[1] <= 3 * (bbox.y1 - bbox.y0) * size[2]

C10_Scenario ==
    /\ fit_pc = "returned"
    /\ Width(fit_bbox) = 40
    /\ Height(fit_bbox) = 12
    /\ original_size = R(12, 1)
    /\ Len(fit_text) = 200 /\ NonBlank(fit_text)
    /\ fit_config = DefaultFontConfig

\* C10 (as claimed): the scenario renders at min_font_size.
C10_ScenarioAtMinimum == C10_Scenario => new_size = fit_config.min_font_size

\* C10 (amended): the scenario renders at original_size * max_font_reduction,
\* 12 * 0.8 = 9.6 points, which is above min_font_size.
C10_ScenarioAtReductionFloor == C10_Scenario => new_size = R(48, 5)

\* C10 witness: the scenario has been computed
C10_Witness == C10_Scenario /\ RLt(fit_config.min_font_size, new_size)

(***************************************************************************)
(* Properties of _wrap_text (SpecWrap).                                    *)
(***************************************************************************)
\* the words of every line of `lines`, in order
RECURSIVE WordsOfLines(_)
WordsOfLines(lines) ==
    IF lines = <<>> THEN <<>>
    ELSE SplitWords(Head(lines), <<>>) \o WordsOfLines(Tail(lines))

\* the word alone is estimated wider than the width available
WiderThanMaxWidth(word) == ~RLe(WrapEstimatedWidth(word, wrap_font_size), max_width)

\* C11: for every text with at least one non-whitespace character and every
\* max_width, zero and negative included, _wrap_text returns a non-empty list
\* of lines; the words of the lines, read in order, are exactly the words of
\* the text (no word is split across lines, lost or repeated), each line being
\* its words joined by single spaces; and a word wider than max_width is the
\* only word of its line.
C11_WrapTotality ==
    (wrap_pc = "returned" /\ NonBlank(wrap_text)) =>
        /\ wrap_lines # <<>>
        /\ WordsOfLines(wrap_lines) = SplitWords(wrap_text, <<>>)
        /\ \A j \in 1..Len(wrap_lines) :
              LET words == SplitWords(wrap_lines[j], <<>>)
              IN /\ words # <<>>
                 /\ wrap_lines[j] = JoinWithSpace(words)
                 /\ \A n \in 1..Len(words) :
                       WiderThanMaxWidth(words[n]) => Len(words) = 1

\* a positive width, a word wider than it on a line of its own, and a second
\* line holding the rest of the text
C11_Witness ==
    /\ wrap_pc = "returned"
    /\ RLt(R(0, 1), max_width)
    /\ Len(wrap_lines) >= 2
    /\ \E j \in 1..Len(wrap_lines) : WiderThanMaxWidth(wrap_lines[j])
    /\ \E j \in 1..Len(wrap_lines) : ~WiderThanMaxWidth(wrap_lines[j])

(***************************************************************************)
(* Properties of the composition, the page-range batches and the merge     *)
(* (SpecDoc).                                                              *)
(***************************************************************************)
\* the create calls made by process_large_pdf_in_batches that have ended
BatchEntries == SelectSeq(doc_log, LAMBDA e : e.caller = "batch")

\* process_large_pdf_in_batches has returned
BatchesOver == doc_pc \in {"merge", "done"} /\ caller = "batch"

\* the source page numbers of a document's pages, in order
PageNumbersOf(d) == [j \in 1..Len(d) |-> d[j].page_number]

FileExists(path) == \E f \in files : f.path = path

\* the least n with n * b >= a
CeilDiv(a, b) == CHOOSE n \in 0..a : n * b >= a /\ (n - 1) * b < a

\* the numbers from, from + 1, ..., to - 1 in order
Interval(from, to) == [j \in 1..(to - from) |-> from + j - 1]

\* C12: when the single pass and every batch saved their output and every
\* batch file was merged, composing N pages in batches of p < N pages and
\* merging the batch outputs in order gives a final document with the same
\* number of pages, from the same source pages in the same order 0..N-1, as
\* the document composed in a single pass.
C12_BatchWholeEquivalence ==
    ( /\ doc_pc = "done"
      /\ caller = "batch"
      /\ pages_per_batch < Len(doc_pages)
      /\ \A n \in 1..Len(doc_log) : doc_log[n].outcome = "saved"
      /\ \A n \in 1..Len(merge_log) : merge_log[n].merged
      /\ FileExists(FinalOutputPath) )
    => /\ PageNumbersOf(ContentAt(files, FinalOutputPath))
            = PageNumbersOf(ContentAt(files, OutputPath))
       /\ PageNumbersOf(ContentAt(files, FinalOutputPath)) = Interval(0, Len(doc_pages))

\* three pages in batches of two: both passes saved, both batch files merged
C12_Witness ==
    /\ doc_pc = "done"
    /\ caller = "batch"
    /\ Len(doc_pages) = 3
    /\ pages_per_batch = 2
    /\ \A n \in 1..Len(doc_log) : doc_log[n].outcome = "saved"
    /\ Len(merge_log) = 2
    /\ \A n \in 1..Len(merge_log) : merge_log[n].merged
    /\ FileExists(FinalOutputPath)
    /\ Len(ContentAt(files, OutputPath)) = 3

\* C13: a batch whose composition fails does not stop the batch loop: the
\* batches attempted are batch 0, 1, ... in ascending page-range order, all
\* ceil(N / p) of them once process_large_pdf_in_batches has returned, and
\* the list it builds holds exactly the output paths of the batches that were
\* saved, in that order.
C13_BatchFailureIsolated ==
    LET B == BatchEntries
        N == Len(doc_pages)
    IN /\ \A j \in 1..Len(B) : B[j].page_range[1] = (j - 1) * pages_per_batch
       /\ output_files = [j \in 1..Len(SelectSeq(B, LAMBDA e : e.outcome = "saved")) |->
                              SelectSeq(B, LAMBDA e : e.outcome = "saved")[j].path]
       /\ BatchesOver => Len(B) = CeilDiv(N, pages_per_batch)

\* the loop is over, an earlier batch failed and a later batch was saved
C13_Witness ==
    /\ BatchesOver
    /\ \E j, l \in 1..Len(BatchEntries) :
          /\ j < l
          /\ BatchEntries[j].outcome # "saved"
          /\ BatchEntries[l].outcome = "saved"
          /\ output_files[Len(output_files)] = BatchEntries[l].path

\* the pages of the batch files of `log` that were merged, in order
RECURSIVE MergedPages(_)
MergedPages(log) ==
    IF log = <<>> THEN <<>>
    ELSE (IF Head(log).merged THEN ContentAt(files, Head(log).path) ELSE <<>>)
         \o MergedPages(Tail(log))

\* C14: merge_batch_pdfs handles the batch files in the order given; at every
\* step of the merge the document being merged is the pages of the files
\* merged so far in that order, so a file that fails to merge contributes
\* nothing and leaves the pages merged before it as they were, no source page
\* appears twice, and the saved final document is that concatenation.
C14_MergeOrder ==
    (doc_pc = "merge" \/ (doc_pc = "done" /\ caller = "batch" /\ output_files # <<>>)) =>
        /\ Len(merge_log) <= Len(output_files)
        /\ \A j \in 1..Len(merge_log) : merge_log[j].path = output_files[j]
        /\ final_doc = MergedPages(merge_log)
        /\ \A a, b \in 1..Len(final_doc) :
              a # b => final_doc[a].page_number # final_doc[b].page_number
        /\ doc_pc = "done" =>
              /\ Len(merge_log) = Len(output_files)
              /\ FileExists(FinalOutputPath) =>
                    ContentAt(files, FinalOutputPath) = final_doc

\* three batch files of which the second failed to merge: the final document
\* holds the first and the third
C14_Witness ==
    /\ doc_pc = "done"
    /\ Len(merge_log) = 3
    /\ merge_log[1].merged /\ ~merge_log[2].merged /\ merge_log[3].merged
    /\ FileExists(FinalOutputPath)
    /\ PageNumbersOf(ContentAt(files, FinalOutputPath)) = <<0, 2>>

\* C16: no create call is ended by a failure to draw one fragment, be it the
\* fragment's cover rectangle or its text.
C16_FragmentFailureCaught ==
    \A n \in 1..Len(doc_log) : doc_log[n].outcome \notin {"cover_failed", "text_failed"}

\* the fragments a fully composed page carries: all of the page's, sorted
FullyComposed(content, page_numbers) ==
    /\ PageNumbersOf(content) = page_numbers
    /\ \A j \in 1..Len(content) :
          [n \in 1..Len(content[j].fragments) |-> content[j].fragments[n].block]
              = PageTextBlocks(doc_text_blocks, content[j].page_number)

\* C17: a create call that saved had composed every page of its range, and
\* the file holds exactly those pages, each with all its fragments; a create
\* call that was ended by an error while composing a page left no file at its
\* output path; every composed file on disk comes from a call that saved.
C17_SaveAfterComposition ==
    /\ \A n \in 1..Len(doc_log) :
          LET e == doc_log[n]
          IN /\ e.outcome = "saved" =>
                   /\ e.composed = Len(e.pages)
                   /\ FileExists(e.path)
                   /\ FullyComposed(ContentAt(files, e.path), e.pages)
             /\ e.outcome \in {"page_failed", "cover_failed"} => ~FileExists(e.path)
    /\ \A f \in files :
          f.path # FinalOutputPath =>
              \E n \in 1..Len(doc_log) : doc_log[n].path = f.path /\ doc_log[n].outcome = "saved"

\* a batch that failed on its second page, its first page already composed in
\* memory, left no file, while another batch was saved
C17_Witness ==
    \E n, m \in 1..Len(doc_log) :
        /\ doc_log[n].outcome \in {"page_failed", "cover_failed"}
        /\ doc_log[n].caller = "batch"
        /\ doc_log[n].composed >= 1
        /\ ~FileExists(doc_log[n].path)
        /\ doc_log[m].caller = "batch"
        /\ doc_log[m].outcome = "saved"

\* C18: the k-th batch of process_large_pdf_in_batches has the page range
\* [k*p, min((k+1)*p, N)) and composes exactly the pages numbered in it; the
\* ranges are non-empty, taken in ascending order and pairwise disjoint, and
\* once the loop is over there are ceil(N / p) of them and their union is
\* [0, N).
C18_PageRanges ==
    LET B == BatchEntries
        N == Len(doc_pages)
        p == pages_per_batch
    IN /\ \A j \in 1..Len(B) :
             /\ B[j].page_range = <<(j - 1) * p, Min(j * p, N)>>
             /\ B[j].page_range[1] < B[j].page_range[2]
             /\ B[j].pages = Interval(B[j].page_range[1], B[j].page_range[2])
       /\ \A j, l \in 1..Len(B) : j < l => B[j].page_range[2] <= B[l].page_range[1]
       /\ BatchesOver =>
             /\ Len(B) = CeilDiv(N, p)
             /\ UNION {B[j].page_range[1]..(B[j].page_range[2] - 1) : j \in 1..Len(B)}
                    = 0..(N - 1)

\* three pages in batches of two: the second, last range is [2, 3)
C18_Witness ==
    /\ BatchesOver
    /\ Len(doc_pages) = 3
    /\ pages_per_batch = 2
    /\ Len(BatchEntries) = 2
    /\ BatchEntries[2].page_range = <<2, 3>>

(***************************************************************************)
(* Properties of translate_pdf (SpecApp).                                  *)
(***************************************************************************)
\* the name does not end in ".pdf", letter case aside
NotPdfName(name) ==
    \/ Len(name) < 4
    \/ Lower(SubSeq(name, Len(name) - 3, Len(name))) # <<".", "p", "d", "f">>

\* C15: when the input file is missing or its name is not a .pdf name, no
\* collaborator call (extraction, language detection, translation, rendering,
\* merge) is ever made, no output file is created, and translate_pdf returns
\* False.
C15_InputErrorBeforeAnyCall ==
    (app_pc # "off" /\ (~input_exists \/ NotPdfName(input_path))) =>
        /\ app_calls = <<>>
        /\ written = {}
        /\ app_pc \in {"call", "returned"}
        /\ app_pc = "returned" => app_result = FALSE

\* an existing file that is not a .pdf, rejected
C15_Witness ==
    /\ app_pc = "returned"
    /\ input_exists
    /\ input_path = <<"a", ".", "p", "d", "f", ".", "t", "x", "t">>
    /\ app_result = FALSE
    /\ app_calls = <<>>

(***************************************************************************)
(* Properties of whitespace-only fragments (Spec).                         *)
(***************************************************************************)
\* text_block.translated_text or text_block.text: the text the reconstructor
\* renders for a fragment
RenderedText(block) ==
    IF block.translated_text # <<>> THEN block.translated_text ELSE block.text

\* no space at either end and no two spaces in a row: what a join by single
\* spaces of non-blank trimmed texts looks like
SingleSpaced(s) ==
    /\ s = Strip(s)
    /\ \A j \in 1..(Len(s) - 1) : ~(IsSpace(s[j]) /\ IsSpace(s[j + 1]))

\* C19: once translate_text_blocks has returned, the text rendered for every
\* whitespace-only fragment is its own source text, whether its batch was
\* mixed, fell back to individual calls or held nothing but whitespace; and
\* no call that reaches the translator carries a whitespace-only text, among
\* its texts or as a piece of its context.
C19_WhitespacePassThrough ==
    /\ pc = "done" =>
          \A id \in DOMAIN heap :
              ~NonBlank(heap0[id].text) => RenderedText(heap[id]) = heap0[id].text
    /\ \A n \in 1..Len(trace) :
          trace[n].external =>
              /\ trace[n].texts # <<>>
              /\ \A j \in 1..Len(trace[n].texts) : NonBlank(trace[n].texts[j])
              /\ SingleSpaced(trace[n].context)

\* a whitespace-only fragment alone in its batch, its translated_text never
\* set, next to a fragment that was translated
C19_Witness ==
    /\ pc = "done"
    /\ \E id \in DOMAIN heap :
          /\ ~NonBlank(heap0[id].text)
          /\ heap[id].translated_text = <<>>
          /\ RenderedText(heap[id]) = <<" ">>
    /\ \E n \in 1..Len(trace) : trace[n].external /\ trace[n].ok

\* C20: a batch call is made only for a batch holding a fragment with
\* non-whitespace text, an individual call only for a fragment of a batch whose
\* batch call failed, and it reaches the translator only for a non-whitespace
\* text; so fragments that are all whitespace-only, or no fragments at all,
\* produce no call of either kind.
C20_NoCallsForNothing ==
    /\ \A n \in 1..Len(trace) :
          /\ trace[n].kind = "batch" =>
                \E j \in 1..Len(trace[n].blocks) : NonBlank(heap0[trace[n].blocks[j]].text)
          /\ trace[n].kind = "single" =>
                /\ \E m \in 1..(n - 1) :
                      /\ trace[m].kind = "batch" /\ ~trace[m].ok
                      /\ \E j \in 1..Len(trace[m].blocks) :
                            trace[m].blocks[j] = trace[n].blocks[1]
                /\ trace[n].external => NonBlank(heap0[trace[n].blocks[1]].text)
    /\ (\A id \in DOMAIN heap0 : ~NonBlank(heap0[id].text)) => trace = <<>>

\* one batch of two whitespace-only fragments went through without a call
C20_Witness ==
    /\ pc = "done"
    /\ config.batch_size = 2
    /\ Len(translated_blocks) = 2
    /\ heap0[1].page = heap0[2].page
    /\ \A id \in DOMAIN heap0 : ~NonBlank(heap0[id].text)
    /\ trace = <<>>


(***************************************************************************)
(* C21: sequential calls, one per batch, in slice order                    *)
(***************************************************************************)
\* number of fragments of the pages before the q-th one
RECURSIVE FragmentsBefore(_)
FragmentsBefore(q) ==
    IF q <= 1 THEN 0 ELSE FragmentsBefore(q - 1) + Len(pages[q - 1].blocks)

\* what _translate_page_blocks returned for the q-th page
PageSequence(q) ==
    SubSeq(translated_blocks, FragmentsBefore(q) + 1,
           FragmentsBefore(q) + Len(pages[q].blocks))

\* the contiguous slices of at most `size` elements that cover seq in order
Slices(seq, size) ==
    [j \in 1..CeilDiv(Len(seq), size) |->
        SubSeq(seq, (j - 1) * size + 1, Min(j * size, Len(seq)))]

\* the events of the calls made for the fragments of the q-th page
PageEvents(q) ==
    SelectSeq(trace, LAMBDA e : heap[e.blocks[1]].page = pages[q].page)

\* C21: at no time are two external calls outstanding (a call is outstanding
\* exactly while translate_text_blocks waits for its answer); and for a page
\* that has been processed with every call succeeding, the calls are batch
\* calls, one for each slice holding a non-whitespace fragment, in ascending
\* slice order, where the slices are the contiguous slices of at most
\* batch_size fragments that cover the page's (y0, x0)-sorted sequence.
C21_SequentialBatchCalls ==
    /\ outstanding \in {0, 1}
    /\ outstanding = 1 <=> pc \in {"batch_call", "single_call"}
    /\ \A q \in 1..Len(pages) :
          (q < page_idx /\ \A n \in 1..Len(PageEvents(q)) : PageEvents(q)[n].ok) =>
              LET seq == PageSequence(q)
                  wanted == SelectSeq(Slices(seq, config.batch_size),
                                      LAMBDA slice : NonBlankBlocks(slice) # <<>>)
              IN /\ Len(seq) = Len(pages[q].blocks)
                 /\ {seq[j] : j \in 1..Len(seq)}
                       = {pages[q].blocks[j] : j \in 1..Len(seq)}
                 /\ \A a, b \in 1..Len(seq) : a < b => KeyNotAfter(seq[a], seq[b])
                 /\ Len(PageEvents(q)) = Len(wanted)
                 /\ \A n \in 1..Len(wanted) :
                       /\ PageEvents(q)[n].kind = "batch"
                       /\ PageEvents(q)[n].external
                       /\ PageEvents(q)[n].blocks = wanted[n]

\* C21 witness: a page of two non-blank fragments supplied against their
\* reading order was translated with batch_size 1 by two successful batch
\* calls, the upper fragment first
C21_Witness ==
    /\ pc = "done"
    /\ outstanding = 0
    /\ config.batch_size = 1
    /\ Len(pages) = 1
    /\ Len(trace) = 2
    /\ \A n \in 1..2 : trace[n].kind = "batch" /\ trace[n].ok
    /\ trace[1].blocks = <<2>>
    /\ trace[2].blocks = <<1>>
    /\ NonBlank(heap0[1].text) /\ NonBlank(heap0[2].text)

(***************************************************************************)
(* C22, C23: where _add_translated_text draws                              *)
(***************************************************************************)
\* the lines the fragment's text wraps into at the render size
WrappedLines ==
    _wrap_text(AddText, render_size, R(Width(add_block.bbox) - 2, 1))

\* rectTop + 0.75 * renderSize + n * 1.2 * renderSize
BaselineOfLine(n) ==
    RAdd(RAdd(R(add_block.bbox.y0, 1), RMul(R(3, 4), render_size)),
         RMul(R(n, 1), RMul(R(6, 5), render_size)))

\* C22: whichever face is used, the j-th drawn text is the j-th wrapped line,
\* its baseline is rectTop + 0.75 * renderSize + (j - 1) * 1.2 * renderSize,
\* and no baseline is below the rectangle's bottom.
C22_DrawnWithinRectangle ==
    \A j \in 1..Len(drawn) :
        /\ j <= Len(WrappedLines)
        /\ drawn[j].text = WrappedLines[j]
        /\ drawn[j].pos[2] = BaselineOfLine(j - 1)
        /\ RLe(drawn[j].pos[2], R(add_block.bbox.y1, 1))

\* C23: nothing is drawn for a fragment whose rectangle has zero width or zero
\* height.
C23_DegenerateRectangleSkipped ==
    (Width(add_block.bbox) = 0 \/ Height(add_block.bbox) = 0) => drawn = <<>>

(***************************************************************************)
(* C24: language detection                                                 *)
(***************************************************************************)
\* the first few fragments' texts, joined by single spaces
RECURSIVE SpaceJoined(_)
SpaceJoined(texts) ==
    IF texts = <<>> THEN <<>>
    ELSE IF Len(texts) = 1 THEN texts[1]
    ELSE texts[1] \o <<" ">> \o SpaceJoined(Tail(texts))

\* the source language is unset or 'auto': the argument or form field is
\* 'auto', or it is missing and no configured language stands in for it
SourceIsAuto ==
    \/ given_lang = Auto
    \/ given_lang = <<>> /\ (entry = "web_app" \/ config_lang = Auto)

\* C24: when the source language is unset/'auto' and the document has a
\* fragment, the calls of a finished run are one detection call on the first
\* five fragments' texts followed by translation with the code it returned,
\* which is 'en' when the detection call failed.
C24_DetectOnceThenTranslate ==
    (lang_pc = "done" /\ SourceIsAuto /\ block_texts # <<>>) =>
        /\ Len(lang_calls) = 2
        /\ lang_calls[1].kind = "detect"
        /\ lang_calls[1].text = SpaceJoined(SubSeq(block_texts, 1,
                                                   Min(5, Len(block_texts))))
        /\ lang_calls[2].kind = "translate"
        /\ lang_calls[2].code = lang_calls[1].code
        /\ ~lang_calls[1].ok => lang_calls[2].code = <<"e", "n">>

(***************************************************************************)
(* C25: ordinals of every width                                            *)
(***************************************************************************)
\* C25: a reply of one segment that starts with the ordinal token "N." of an
\* item number N from 1 to MaxOrdinal is parsed to the rest of the segment,
\* trimmed.
C25_OrdinalStripped ==
    (parse_pc = "returned" /\ expected_count >= 1
        /\ Len(Split(response, Separator)) = 1) =>
        \A n \in 1..MaxOrdinal :
            StartsWith(Strip(response), Digits(n) \o <<".">>) =>
                parse_result[1]
                    = Strip(DropFirst(Strip(response), Len(Digits(n)) + 1))

(***************************************************************************)
(* C26: one cache entry per (text, source, target) triple                  *)
(***************************************************************************)
SameTriple(a, b) ==
    /\ a.text = b.text
    /\ a.source_lang = b.source_lang
    /\ a.target_lang = b.target_lang

\* C26: a value returned from the cache for a triple was stored by an earlier
\* call for the same triple, whatever characters the three strings contain.
C26_NoSharedCacheEntry ==
    \A n \in 1..Len(tt_calls) :
        tt_calls[n].hit =>
            \E m \in 1..(n - 1) :
                /\ tt_calls[m].stored
                /\ SameTriple(tt_calls[m], tt_calls[n])
                /\ tt_calls[m].result = tt_calls[n].result

(***************************************************************************)
(* C27: no empty translation in the cache                                  *)
(***************************************************************************)
\* C27: the cache holds no empty translation for a non-whitespace text of the
\* call, and no individual translation of a non-whitespace text that was
\* answered from the cache returned "".
C27_NoEmptyTranslationCached ==
    /\ \A id \in DOMAIN heap0 :
          LET key == CacheKey(heap0[id].text, source_lang, target_lang)
          IN (NonBlank(heap0[id].text) /\ key \in DOMAIN translation_cache) =>
                 translation_cache[key] # <<>>
    /\ \A n \in 1..Len(trace) :
          (trace[n].kind = "single" /\ ~trace[n].external
              /\ NonBlank(trace[n].texts[1])) =>
              trace[n].translations[1] # <<>>

(***************************************************************************)
(* C28: the task table seen by /download and /view                         *)
(***************************************************************************)
\* C28: a task whose status is 'completed' has its result_path and html_path
\* set, and no request that passed the status check found its path missing.
C28_CompletedHasPaths ==
    /\ \A t \in DOMAIN tasks :
          tasks[t]["status"] = "completed" =>
              {"result_path", "html_path"} \subseteq DOMAIN tasks[t]
    /\ \A n \in 1..Len(responses) : responses[n].outcome # "KeyError"

(***************************************************************************)
(* C29: the fit computation and the original size                          *)
(***************************************************************************)
\* C29 (as claimed): the render size never exceeds the original size.
C29_NeverAboveOriginal ==
    fit_pc = "returned" => RLe(new_size, original_size)

\* C29 (amended): the render size never exceeds the larger of the original
\* size and min_font_size; so it never exceeds the original size when that is
\* at least min_font_size, and a smaller original size is raised to exactly
\* min_font_size when the text does not fit.
C29_NeverAboveOriginalOrFloor ==
    fit_pc = "returned" =>
        /\ RLe(new_size, RMax(original_size, fit_config.min_font_size))
        /\ RLt(original_size, new_size) =>
              /\ new_size = fit_config.min_font_size
              /\ NonBlank(fit_text)
              /\ ~TextFits(fit_text, fit_bbox, original_size)

\* C29 witness: a 4 point text that does not fit its rectangle is rendered at
\* min_font_size 6
C29_Witness ==
    /\ fit_pc = "returned"
    /\ original_size = R(4, 1)
    /\ fit_config.min_font_size = R(6, 1)
    /\ NonBlank(fit_text)
    /\ ~TextFits(fit_text, fit_bbox, original_size)
    /\ new_size = R(6, 1)

(***************************************************************************)
(* C30: termination and the number of external calls                       *)
(***************************************************************************)
\* the positions of the batch events that carry fragment id
BatchEventsOf(id) ==
    {n \in 1..Len(trace) :
        trace[n].kind = "batch" /\ \E j \in 1..Len(trace[n].blocks) : trace[n].blocks[j] = id}

\* the positions of the individual translations of fragment id
SingleEventsOf(id) ==
    {n \in 1..Len(trace) : trace[n].kind = "single" /\ trace[n].blocks = <<id>>}

\* the external calls made for the batch of event n: the batch call and the
\* individual calls of its fallback that reached the translator
ExternalCallsOfBatch(n) ==
    1 + Cardinality({m \in 1..Len(trace) :
                        /\ trace[m].kind = "single" /\ trace[m].external
                        /\ m > n
                        /\ n \in BatchEventsOf(trace[m].blocks[1])})

\* no fragment is sent twice in a batch or twice on its own, an individual
\* call is made only after the failed batch call of its fragment, and a batch
\* with n non-blank fragments causes at most 1 + n external calls
CallBudget ==
    /\ \A id \in DOMAIN heap0 :
          /\ Cardinality(BatchEventsOf(id)) <= 1
          /\ Cardinality(SingleEventsOf(id)) <= 1
          /\ \A m \in SingleEventsOf(id) :
                \E n \in BatchEventsOf(id) : n < m /\ ~trace[n].ok
    /\ \A n \in 1..Len(trace) :
          trace[n].kind = "batch" =>
              ExternalCallsOfBatch(n) <= 1 + Len(NonBlankBlocks(trace[n].blocks))

\* the call has returned every fragment once, each with its rendered text
\* decided: a blank fragment passes through, any other was set by a batch
\* reply or by an individual translation
AllDecided ==
    /\ pc = "done"
    /\ Len(translated_blocks) = Len(text_blocks)
    /\ \A id \in DOMAIN heap0 :
          /\ \E j \in 1..Len(translated_blocks) : translated_blocks[j] = id
          /\ \/ ~NonBlank(heap0[id].text) /\ RenderedText(heap[id]) = heap0[id].text
             \/ \E n \in BatchEventsOf(id) : trace[n].ok
             \/ \E n \in SingleEventsOf(id) :
                   heap[id].translated_text = trace[n].translations[1]

\* C30: whatever calls fail, translate_text_blocks eventually returns with
\* every fragment's rendered text decided, and at every moment no call has
\* been repeated and each batch has caused at most 1 + n external calls.
C30_TerminatesWithinBudget == <>AllDecided /\ []CallBudget

\* C30 witness: the call has returned after a failed batch call for two
\* non-blank fragments and two individual calls, 1 + 2 external calls
C30_Witness ==
    /\ pc = "done"
    /\ Len(trace) = 3
    /\ trace[1].kind = "batch" /\ ~trace[1].ok
    /\ Len(NonBlankBlocks(trace[1].blocks)) = 2
    /\ trace[2].kind = "single" /\ trace[2].external
    /\ trace[3].kind = "single" /\ trace[3].external
    /\ ExternalCallsOfBatch(1) = 3

====
